---- MODULE Spec2Model ----
(***************************************************************************)
(* A model of the backtest engine (rust/backtest-engine): the per-bar loop *)
(* of BacktestEngine::run, the Portfolio ledger, the ExecutionSimulator    *)
(* with its latency queue, and the SignalGenerator.                        *)
(*                                                                         *)
(* Numbers.  The code computes in f64.  The model computes in integers:    *)
(*   - money and prices are in cents (100.00 is 10000);                    *)
(*   - quantities are whole shares (the engine only trades floor()ed or    *)
(*     volume-capped whole quantities);                                    *)
(*   - every *_pct parameter is in whole percent (0.05 is 5), an RSI is a  *)
(*     whole number in 0..100, a probability is in percent;                *)
(*   - a stop_loss_price is kept multiplied by 100 (fill * (100 - pct)),   *)
(*     so that fill * (1 - pct) needs no division;                         *)
(*   - a timestamp is the index of the bar in its series (one bar a day).  *)
(* Option<T> is a sequence of length 0 (None) or 1 (Some).                 *)
(***************************************************************************)
EXTENDS Integers, Sequences, FiniteSets, TLC

\* Bounds of the model.
MaxBars == 4
MaxLatency == 2

None == << >>
Some(x) == << x >>
IsSome(o) == Len(o) = 1
Unwrap(o) == o[1]
UnwrapOr(o, d) == IF Len(o) = 1 THEN o[1] ELSE d

Max(a, b) == IF a >= b THEN a ELSE b
Min(a, b) == IF a <= b THEN a ELSE b

(***************************************************************************)
(* common/src/config.rs                                                    *)
(***************************************************************************)

\* RealisticExecutionConfig::default(), on the model's percent grid.
DefaultExecutionConfig ==
    [ enabled |-> FALSE,
      slippage_min_pct |-> -1,
      slippage_max_pct |-> 2,
      slippage_adverse_probability |-> 70,
      spread_enabled |-> TRUE,
      spread_base_pct |-> 1,
      spread_volatility_multiplier |-> 2,
      volume_limit_enabled |-> TRUE,
      volume_participation_max_pct |-> 2,
      partial_fill_enabled |-> TRUE,
      latency_bars |-> 0,
      market_impact_enabled |-> TRUE,
      market_impact_factor |-> 1,
      rejection_enabled |-> FALSE,
      rejection_base_probability |-> 1,
      rejection_volatility_multiplier |-> 2 ]

\* RealisticExecutionConfig::realistic()
RealisticConfig == [DefaultExecutionConfig EXCEPT !.enabled = TRUE]

\* RealisticExecutionConfig::pessimistic()
PessimisticConfig ==
    [DefaultExecutionConfig EXCEPT
        !.enabled = TRUE,
        !.slippage_min_pct = 0,
        !.slippage_max_pct = 5,
        !.slippage_adverse_probability = 90,
        !.spread_base_pct = 2,
        !.spread_volatility_multiplier = 3,
        !.volume_participation_max_pct = 1,
        !.market_impact_factor = 2,
        !.rejection_enabled = TRUE,
        !.rejection_base_probability = 1]

\* BacktestParameters::default(), with a capital of 300.00 and periods that
\* give a warm-up of one bar.
DefaultParameters ==
    [ symbol |-> "TQQQ",
      inverse_symbol |-> "SQQQ",
      rsi_period |-> 1,
      rsi_oversold |-> 30,
      rsi_overbought |-> 75,
      sma_period |-> 1,
      stop_loss_pct |-> 5,
      position_size_pct |-> 90,
      cash_reserve_pct |-> 10,
      vwap_filter_enabled |-> TRUE,
      vwap_entry_below |-> TRUE,
      bb_filter_enabled |-> FALSE,
      bb_period |-> 1,
      short_enabled |-> TRUE,
      rsi_overbought_short |-> 90,
      rsi_oversold_short |-> 60,
      short_stop_loss_pct |-> 5,
      short_position_size_pct |-> 30,
      initial_capital |-> 30000,
      commission |-> 0,
      execution |-> DefaultExecutionConfig ]

\* The parameter structs a run is started with.
ParameterSet ==
    { DefaultParameters,
      [DefaultParameters EXCEPT !.execution = RealisticConfig],
      [DefaultParameters EXCEPT !.execution = PessimisticConfig,
                                !.commission = 100,
                                !.position_size_pct = 100,
                                !.cash_reserve_pct = 0],
      [DefaultParameters EXCEPT !.execution.latency_bars = 1,
                                !.commission = 100],
      [DefaultParameters EXCEPT !.bb_period = 2,
                                !.stop_loss_pct = 0,
                                !.short_stop_loss_pct = 0] }
    \cup
    { [DefaultParameters EXCEPT !.execution = [RealisticConfig EXCEPT !.latency_bars = l],
                                !.position_size_pct = 40,
                                !.short_position_size_pct = 40]
        : l \in 1..MaxLatency }

(***************************************************************************)
(* common/src/types.rs                                                     *)
(***************************************************************************)

\* struct Bar
Bar(timestamp, high, low, close, volume, vwap) ==
    [ timestamp |-> timestamp, high |-> high, low |-> low, close |-> close,
      volume |-> volume, vwap |-> vwap ]

\* struct Position
Position(symbol, quantity, price, timestamp, side, stop_loss_price) ==
    [ symbol |-> symbol,
      quantity |-> quantity,
      avg_entry_price |-> price,
      entry_date |-> timestamp,
      current_price |-> price,
      side |-> side,
      stop_loss_price |-> stop_loss_price ]

(***************************************************************************)
(* backtest-engine/src/portfolio.rs                                        *)
(***************************************************************************)

\* Portfolio::new
NewPortfolio(initial_capital) ==
    [ initial_capital |-> initial_capital,
      cash |-> initial_capital,
      position |-> None,
      hedge_position |-> None,
      realized_pnl |-> 0,
      trades |-> << >> ]

\* Portfolio::position_value
PositionValue(pf) ==
    IF IsSome(pf.position)
    THEN pf.position[1].quantity * pf.position[1].current_price
    ELSE 0

\* Portfolio::hedge_position_value
HedgePositionValue(pf) ==
    IF IsSome(pf.hedge_position)
    THEN pf.hedge_position[1].quantity * pf.hedge_position[1].current_price
    ELSE 0

\* Portfolio::equity
Equity(pf) == pf.cash + PositionValue(pf) + HedgePositionValue(pf)

\* Portfolio::has_position, Portfolio::has_hedge_position
HasPosition(pf) == IsSome(pf.position)
HasHedgePosition(pf) == IsSome(pf.hedge_position)

\* An update_prices that leaves the mark prices as they are.
UpdateNothing(pf, main_price, hedge_price) == pf

\* Portfolio::update_prices
UpdatePrices(pf, main_price, hedge_price) ==
    LET p1 == IF IsSome(pf.position)
              THEN [pf EXCEPT !.position[1].current_price = main_price]
              ELSE pf
    IN  IF IsSome(p1.hedge_position) /\ IsSome(hedge_price)
        THEN [p1 EXCEPT !.hedge_position[1].current_price = hedge_price[1]]
        ELSE p1

\* An open_position that never finds the cash insufficient.
AlwaysAffordable(cost, cash) == FALSE

\* The test `cost > self.cash` of Portfolio::open_position.
InsufficientCash(cost, cash) == cost > cash

\* An open_position that tests the cost but takes only quantity * price from the cash.
OpenPositionFree(pf, symbol, quantity, price, side, timestamp, stop_loss_price, commission) ==
    LET position == Position(symbol, quantity, price, timestamp, side, stop_loss_price)
    IN  IF InsufficientCash(quantity * price + commission, pf.cash)
        THEN [pf |-> pf, ok |-> FALSE]
        ELSE [pf |-> IF side = "Hedge"
                     THEN [pf EXCEPT !.cash = @ - quantity * price,
                                     !.hedge_position = Some(position)]
                     ELSE [pf EXCEPT !.cash = @ - quantity * price,
                                     !.position = Some(position)],
              ok |-> TRUE]

\* Portfolio::open_position: the portfolio afterwards and whether it returned Ok.
OpenPosition(pf, symbol, quantity, price, side, timestamp, stop_loss_price, commission) ==
    LET cost == quantity * price + commission
        position == Position(symbol, quantity, price, timestamp, side, stop_loss_price)
    IN  IF InsufficientCash(cost, pf.cash)
        THEN [pf |-> pf, ok |-> FALSE]
        ELSE [pf |-> IF side = "Hedge"
                     THEN [pf EXCEPT !.cash = @ - cost, !.hedge_position = Some(position)]
                     ELSE [pf EXCEPT !.cash = @ - cost, !.position = Some(position)],
              ok |-> TRUE]

\* A close that logs the trade and pays the proceeds but leaves realized_pnl alone.
CloseWithoutRealizing(pf, position, price, timestamp, reason, commission) ==
    LET proceeds == position.quantity * price - commission
    IN  [pf EXCEPT !.cash = @ + proceeds,
                   !.trades = Append(@, [ pnl |-> proceeds
                                                    - position.quantity
                                                        * position.avg_entry_price,
                                          exit_reason |-> reason ])]

\* Portfolio::close_position_internal, on the portfolio whose slot was taken.
ClosePositionInternal(pf, position, price, timestamp, reason, commission) ==
    LET proceeds == position.quantity * price - commission
        cost_basis == position.quantity * position.avg_entry_price
        pnl == IF position.side = "Short" THEN cost_basis - proceeds
               ELSE proceeds - cost_basis
        exit_side == CASE position.side = "Long" -> "Sell"
                       [] position.side = "Short" -> "Cover"
                       [] OTHER -> "HedgeSell"
        trade == [ entry_date |-> position.entry_date,
                   entry_price |-> position.avg_entry_price,
                   exit_date |-> timestamp,
                   exit_price |-> price,
                   quantity |-> position.quantity,
                   side |-> exit_side,
                   pnl |-> pnl,
                   \* in hundredths of a percent
                   pnl_pct |-> IF cost_basis > 0 THEN (pnl * 10000) \div cost_basis ELSE 0,
                   holding_days |-> timestamp - position.entry_date,
                   exit_reason |-> reason ]
    IN  [pf EXCEPT !.cash = @ + proceeds,
                   !.realized_pnl = @ + pnl,
                   !.trades = Append(@, trade)]

\* A close_position that also empties the hedge slot.
CloseBothSlots(pf, price, timestamp, reason, commission) ==
    IF pf.position = None THEN [pf EXCEPT !.hedge_position = None]
    ELSE ClosePositionInternal([pf EXCEPT !.position = None, !.hedge_position = None],
                               pf.position[1], price, timestamp, reason, commission)

\* Portfolio::close_position
ClosePosition(pf, price, timestamp, reason, commission) ==
    IF pf.position = None THEN pf
    ELSE ClosePositionInternal([pf EXCEPT !.position = None], pf.position[1],
                               price, timestamp, reason, commission)

\* Portfolio::close_hedge_position
CloseHedgePosition(pf, price, timestamp, reason, commission) ==
    IF pf.hedge_position = None THEN pf
    ELSE ClosePositionInternal([pf EXCEPT !.hedge_position = None], pf.hedge_position[1],
                               price, timestamp, reason, commission)

\* A stop-loss check that takes the hedge position when there is no primary one.
CheckStopLossAnySlot(pf, current_price) ==
    LET held == IF IsSome(pf.position) THEN pf.position ELSE pf.hedge_position
    IN  /\ IsSome(held)
        /\ IsSome(held[1].stop_loss_price)
        /\ IF held[1].side = "Short"
           THEN current_price * 100 >= held[1].stop_loss_price[1]
           ELSE current_price * 100 <= held[1].stop_loss_price[1]

\* Portfolio::check_stop_loss (stop_loss_price is kept times 100)
CheckStopLoss(pf, current_price) ==
    /\ IsSome(pf.position)
    /\ IsSome(pf.position[1].stop_loss_price)
    /\ CASE pf.position[1].side = "Long" ->
              current_price * 100 <= pf.position[1].stop_loss_price[1]
         [] pf.position[1].side = "Short" ->
              current_price * 100 >= pf.position[1].stop_loss_price[1]
         [] OTHER -> FALSE

\* A position size rounded up instead of down.
CalculatePositionSizeUp(pf, price, position_size_pct, cash_reserve_pct) ==
    (pf.cash * (100 - cash_reserve_pct) * position_size_pct + 10000 * price - 1)
      \div (10000 * price)

\* Portfolio::calculate_position_size
CalculatePositionSize(pf, price, position_size_pct, cash_reserve_pct) ==
    (pf.cash * (100 - cash_reserve_pct) * position_size_pct) \div (10000 * price)

(***************************************************************************)
(* backtest-engine/src/execution.rs                                        *)
(***************************************************************************)

\* enum Side
AllSides == {"Buy", "Sell", "Short", "Cover", "HedgeBuy", "HedgeSell"}

\* rng.gen::<f64>() on a percent grid: a draw near 0 and a draw near 1.
UnitDraws == {0, 99}

\* rng.gen_range(lo..hi) on the whole-percent grid of [lo, hi): its two ends.
GenRange(lo, hi) == {lo, hi - 1}

\* The random draws one call of simulate_execution may consume.
Draws(config) ==
    [ u_reject : UnitDraws,
      u_adverse : UnitDraws,
      slip_adverse : IF config.slippage_max_pct # 0
                     THEN GenRange(0, Max(config.slippage_max_pct, -config.slippage_max_pct))
                     ELSE {0},
      slip_favorable : IF config.slippage_min_pct < 0
                       THEN GenRange(config.slippage_min_pct, 0)
                       ELSE {0} ]

\* ExecutionSimulator::new
NewExecutionSimulator(config) == [ config |-> config, pending_orders |-> << >> ]

\* Side::Buy | Side::HedgeBuy | Side::Cover pay more; the other sides receive less.
IsBuySide(side) == side \in {"Buy", "HedgeBuy", "Cover"}

\* ExecutionSimulator::should_reject_order
ShouldRejectOrder(config, volatility, rnd) ==
    /\ config.rejection_enabled
    /\ rnd.u_reject < config.rejection_base_probability
                        + volatility * config.rejection_volatility_multiplier

\* A fill that takes no notice of the bar's volume.
CalculateFillUncapped(config, bar, quantity) == [q |-> quantity, notes |-> << >>]

\* ExecutionSimulator::calculate_fill_quantity: the quantity and the note pushed.
CalculateFillQuantity(config, bar, quantity) ==
    IF ~config.volume_limit_enabled THEN [q |-> quantity, notes |-> << >>]
    \* quantity <= volume * pct / close, with close in cents and pct in percent
    ELSE IF quantity * bar.close <= bar.volume * config.volume_participation_max_pct
    THEN [q |-> quantity, notes |-> << >>]
    ELSE IF config.partial_fill_enabled
    THEN [q |-> Max((bar.volume * config.volume_participation_max_pct) \div bar.close, 0),
          notes |-> << "Partial fill" >>]
    ELSE [q |-> 0, notes |-> << "Order rejected: exceeds volume participation limit" >>]

\* A slippage with the same sign for every side.
SlippageUnsigned(config, price, side, rnd) ==
    LET is_adverse == rnd.u_adverse < config.slippage_adverse_probability
        slippage_pct == IF is_adverse THEN rnd.slip_adverse ELSE rnd.slip_favorable
    IN  (price * slippage_pct) \div 100

\* ExecutionSimulator::calculate_slippage
CalculateSlippage(config, price, side, rnd) ==
    LET is_adverse == rnd.u_adverse < config.slippage_adverse_probability
        slippage_pct == IF is_adverse THEN rnd.slip_adverse ELSE rnd.slip_favorable
        slippage == (price * slippage_pct) \div 100
    IN  IF IsBuySide(side) THEN slippage ELSE -slippage

\* ExecutionSimulator::calculate_spread
CalculateSpread(config, price, side, volatility) ==
    IF ~config.spread_enabled THEN 0
    ELSE LET half_spread ==
                 (price * config.spread_base_pct
                    * (100 + volatility * config.spread_volatility_multiplier)) \div 10000
         IN  IF IsBuySide(side) THEN half_spread ELSE -half_spread

\* ExecutionSimulator::calculate_market_impact:
\* price * factor * (quantity / bar_volume)^2 * 100, the factor in percent.
CalculateMarketImpact(config, price, side, quantity, bar_volume) ==
    IF ~config.market_impact_enabled \/ bar_volume = 0 THEN 0
    ELSE LET impact == ((price * config.market_impact_factor * quantity * quantity)
                           \div bar_volume) \div bar_volume
         IN  IF IsBuySide(side) THEN impact ELSE -impact

\* The test `fill_quantity <= 0.0` of simulate_execution.
NothingFilled(fill_quantity) == fill_quantity <= 0

\* A fill price left where the adjustments put it.
Unclamped(price, bar) == price

\* fill_price.max(bar.low).min(bar.high)
ClampToBar(price, bar) == Min(Max(price, bar.low), bar.high)

\* ExecutionSimulator::simulate_execution; volatility is an Option.
SimulateExecution(config, bar, side, quantity, volatility, rnd) ==
    IF ~config.enabled
    THEN [ executed |-> TRUE, fill_price |-> bar.close, fill_quantity |-> quantity,
           requested_quantity |-> quantity,
           price_adjustments |-> [ base_price |-> bar.close, slippage |-> 0, spread |-> 0,
                                   market_impact |-> 0, total_adjustment |-> 0 ],
           notes |-> << >> ]
    ELSE
    LET vol == UnwrapOr(volatility, 2)
        rejected(notes) ==
          [ executed |-> FALSE, fill_price |-> 0, fill_quantity |-> 0,
            requested_quantity |-> quantity,
            price_adjustments |-> [ base_price |-> 0, slippage |-> 0, spread |-> 0,
                                    market_impact |-> 0, total_adjustment |-> 0 ],
            notes |-> notes ]
        fill == CalculateFillQuantity(config, bar, quantity)
        base_price == UnwrapOr(bar.vwap, bar.close)
        slippage == CalculateSlippage(config, base_price, side, rnd)
        spread == CalculateSpread(config, base_price, side, vol)
        market_impact == CalculateMarketImpact(config, base_price, side, fill.q, bar.volume)
        total_adjustment == slippage + spread + market_impact
        fill_price == ClampToBar(base_price + total_adjustment, bar)
    IN  IF ShouldRejectOrder(config, vol, rnd)
        THEN rejected(<< "Order rejected due to market conditions" >>)
        ELSE IF NothingFilled(fill.q)
        THEN rejected(fill.notes)
        ELSE [ executed |-> TRUE, fill_price |-> fill_price, fill_quantity |-> fill.q,
               requested_quantity |-> quantity,
               price_adjustments |-> [ base_price |-> base_price, slippage |-> slippage,
                                       spread |-> spread, market_impact |-> market_impact,
                                       total_adjustment |-> total_adjustment ],
               notes |-> fill.notes ]

\* A queue that ignores latency_bars: the order is due at the bar it is queued.
ExecuteAtOnce(config, current_bar_index) == current_bar_index

\* The bar at which an order queued at current_bar_index becomes due.
ExecuteAt(config, current_bar_index) == current_bar_index + config.latency_bars

\* ExecutionSimulator::queue_order
QueueOrder(sim, symbol, side, quantity, current_bar_index) ==
    [sim EXCEPT !.pending_orders =
        Append(@, [ symbol |-> symbol, side |-> side, quantity |-> quantity,
                    signal_bar_index |-> current_bar_index,
                    execute_at_bar_index |-> ExecuteAt(sim.config, current_bar_index) ])]

\* A partition that leaves an order in the queue at the bar it is due.
IsDueStrictly(order, current_bar_index) == order.execute_at_bar_index < current_bar_index

\* The partition predicate of get_executable_orders.
IsDue(order, current_bar_index) == order.execute_at_bar_index <= current_bar_index

\* A get_executable_orders that returns the due orders and leaves them queued.
PeekExecutableOrders(sim, current_bar_index) ==
    LET due(o) == IsDue(o, current_bar_index)
    IN  [ ready |-> SelectSeq(sim.pending_orders, due), sim |-> sim ]

\* ExecutionSimulator::get_executable_orders: the orders returned and the simulator.
GetExecutableOrders(sim, current_bar_index) ==
    LET due(o) == IsDue(o, current_bar_index)
        notdue(o) == ~IsDue(o, current_bar_index)
    IN  [ ready |-> SelectSeq(sim.pending_orders, due),
          sim |-> [sim EXCEPT !.pending_orders = SelectSeq(sim.pending_orders, notdue)] ]

\* A simulator that never reports latency.
NoLatency(sim) == FALSE

\* A latency test that looks at latency_bars alone.
HasLatencyBars(sim) == sim.config.latency_bars > 0

\* ExecutionSimulator::has_latency
HasLatency(sim) == sim.config.enabled /\ sim.config.latency_bars > 0

(***************************************************************************)
(* backtest-engine/src/signals/generator.rs                                *)
(***************************************************************************)

Signal(signal_type, symbol, reason) ==
    [ signal_type |-> signal_type, symbol |-> symbol, reason |-> reason ]

\* An entry check without the SMA trend filter.
CheckEntryNoTrend(params, bar, indicators) ==
    LET vwap == IF IsSome(indicators.vwap) THEN indicators.vwap ELSE bar.vwap
    IN  IF indicators.rsi > params.rsi_oversold THEN None
        ELSE IF /\ params.vwap_filter_enabled /\ params.vwap_entry_below
                /\ IsSome(vwap) /\ bar.close >= vwap[1] THEN None
        ELSE IF /\ params.bb_filter_enabled /\ indicators.bb_lower > 0
                /\ bar.close > indicators.bb_lower THEN None
        ELSE Some(Signal("Buy", params.symbol, "price below VWAP"))

\* SignalGenerator::check_entry_signal
CheckEntrySignal(params, bar, indicators) ==
    LET vwap == IF IsSome(indicators.vwap) THEN indicators.vwap ELSE bar.vwap
    IN  IF indicators.rsi > params.rsi_oversold THEN None
        ELSE IF /\ params.vwap_filter_enabled /\ params.vwap_entry_below
                /\ IsSome(vwap) /\ bar.close >= vwap[1] THEN None
        ELSE IF IsSome(indicators.sma) /\ bar.close < indicators.sma[1] THEN None
        ELSE IF /\ params.bb_filter_enabled /\ indicators.bb_lower > 0
                /\ bar.close > indicators.bb_lower THEN None
        ELSE Some(Signal("Buy", params.symbol, "price below VWAP"))

\* SignalGenerator::check_exit_signal (stop_loss_price is kept times 100)
CheckExitSignal(params, bar, indicators, position) ==
    IF indicators.rsi >= params.rsi_overbought
    THEN Some(Signal("Sell", params.symbol, "take profit"))
    ELSE IF /\ IsSome(position) /\ IsSome(position[1].stop_loss_price)
            /\ bar.close * 100 <= position[1].stop_loss_price[1]
    THEN Some(Signal("Sell", params.symbol, "Stop loss triggered"))
    ELSE None

\* SignalGenerator::check_hedge_entry_signal
CheckHedgeEntrySignal(params, bar, indicators) ==
    IF indicators.rsi >= params.rsi_overbought_short
    THEN Some(Signal("HedgeBuy", params.inverse_symbol, "hedge"))
    ELSE None

\* A hedge exit check that leaves the oversold range to the entry check: it
\* fires only while RSI is above rsi_oversold.
CheckHedgeExitAboveEntry(params, bar, indicators) ==
    IF indicators.rsi <= params.rsi_oversold_short /\ indicators.rsi > params.rsi_oversold
    THEN Some(Signal("HedgeSell", params.inverse_symbol, "close hedge"))
    ELSE None

\* SignalGenerator::check_hedge_exit_signal
CheckHedgeExitSignal(params, bar, indicators) ==
    IF indicators.rsi <= params.rsi_oversold_short
    THEN Some(Signal("HedgeSell", params.inverse_symbol, "close hedge"))
    ELSE None

\* A generator that looks at the hedge rules before the exit rules.
GenerateHedgeFirst(params, bar, indicators, has_position, current_position, has_hedge) ==
    LET hedge == IF ~params.short_enabled THEN None
                 ELSE IF has_hedge THEN CheckHedgeExitSignal(params, bar, indicators)
                 ELSE IF ~has_position THEN CheckHedgeEntrySignal(params, bar, indicators)
                 ELSE None
        exit == IF has_position
                THEN CheckExitSignal(params, bar, indicators, current_position) ELSE None
    IN  IF IsSome(hedge) THEN hedge
        ELSE IF IsSome(exit) THEN exit
        ELSE IF ~has_position THEN CheckEntrySignal(params, bar, indicators)
        ELSE None

\* SignalGenerator::generate
Generate(params, bar, indicators, has_position, current_position, has_hedge) ==
    LET exit == IF has_position
                THEN CheckExitSignal(params, bar, indicators, current_position) ELSE None
        hedge == IF ~params.short_enabled THEN None
                 ELSE IF has_hedge THEN CheckHedgeExitSignal(params, bar, indicators)
                 ELSE IF ~has_position THEN CheckHedgeEntrySignal(params, bar, indicators)
                 ELSE None
        entry == IF ~has_position THEN CheckEntrySignal(params, bar, indicators) ELSE None
    IN  IF IsSome(exit) THEN exit
        ELSE IF IsSome(hedge) THEN hedge
        ELSE entry

(***************************************************************************)
(* backtest-engine/src/engine.rs                                           *)
(*                                                                         *)
(* The engine's helpers work on a record w of the objects run owns:        *)
(*   w.pf   the Portfolio,                                                 *)
(*   w.sim  the ExecutionSimulator,                                        *)
(*   w.ev   what has been called while processing the current bar, in      *)
(*          call order (a record of the calls, not program state),         *)
(*   w.opens  how many calls of open_position have returned Ok.            *)
(***************************************************************************)

\* A warm-up that looks at the SMA period only.
WarmupSma(params) == params.sma_period

\* `warmup` of BacktestEngine::run
Warmup(params) == Max(params.sma_period, params.bb_period)

\* The stop price the engine passes to open_position (kept times 100).
StopLossPrice(fill_price, stop_loss_pct) ==
    IF stop_loss_pct > 0 THEN Some(fill_price * (100 - stop_loss_pct)) ELSE None

\* `exec_result.executed && exec_result.fill_quantity >= 1.0`
Fillable(exec_result) == exec_result.executed /\ exec_result.fill_quantity >= 1

Log(w, event) == [w EXCEPT !.ev = Append(@, event)]

\* One call of simulate_execution by the engine, recorded.
Simulated(w, bar, side, quantity, exec_result) ==
    Log(w, [ e |-> "simulate_execution", side |-> side, quantity |-> quantity,
             bar |-> bar, result |-> exec_result ])

\* The `let _ = portfolio.open_position(..)` of execute_buy, execute_hedge_buy and
\* process_pending_orders, guarded by the test on the execution result.
OpenFilled(w, params, symbol, exec_result, side, timestamp, stop_loss_pct) ==
    IF ~Fillable(exec_result) THEN w
    ELSE LET before == w.pf
             r == OpenPosition(before, symbol, exec_result.fill_quantity,
                               exec_result.fill_price, side, timestamp,
                               StopLossPrice(exec_result.fill_price, stop_loss_pct),
                               params.commission)
         IN  [w EXCEPT !.pf = r.pf,
                       !.opens = @ + (IF r.ok THEN 1 ELSE 0),
                       !.ev = Append(@, [ e |-> "open_position", side |-> side, ok |-> r.ok,
                                          quantity |-> exec_result.fill_quantity,
                                          price |-> exec_result.fill_price,
                                          timestamp |-> timestamp,
                                          commission |-> params.commission,
                                          before |-> before, after |-> r.pf ])]

\* BacktestEngine::execute_buy
ExecuteBuy(w, params, bar, volatility, rnd) ==
    LET quantity == CalculatePositionSize(w.pf, bar.close, params.position_size_pct,
                                          params.cash_reserve_pct)
        exec_result == SimulateExecution(w.sim.config, bar, "Buy", quantity, volatility, rnd)
    IN  IF quantity < 1 THEN w
        ELSE OpenFilled(Simulated(w, bar, "Buy", quantity, exec_result), params,
                        params.symbol, exec_result, "Long", bar.timestamp,
                        params.stop_loss_pct)

\* An execute_hedge_buy that opens the inverse symbol as a Short position.
ExecuteHedgeBuyShort(w, params, bar, volatility, rnd) ==
    LET quantity == CalculatePositionSize(w.pf, bar.close, params.short_position_size_pct,
                                          params.cash_reserve_pct)
        exec_result == SimulateExecution(w.sim.config, bar, "HedgeBuy", quantity,
                                         volatility, rnd)
    IN  IF quantity < 1 THEN w
        ELSE OpenFilled(Simulated(w, bar, "HedgeBuy", quantity, exec_result), params,
                        params.inverse_symbol, exec_result, "Short", bar.timestamp,
                        params.short_stop_loss_pct)

\* BacktestEngine::execute_hedge_buy
ExecuteHedgeBuy(w, params, bar, volatility, rnd) ==
    LET quantity == CalculatePositionSize(w.pf, bar.close, params.short_position_size_pct,
                                          params.cash_reserve_pct)
        exec_result == SimulateExecution(w.sim.config, bar, "HedgeBuy", quantity,
                                         volatility, rnd)
    IN  IF quantity < 1 THEN w
        ELSE OpenFilled(Simulated(w, bar, "HedgeBuy", quantity, exec_result), params,
                        params.inverse_symbol, exec_result, "Hedge", bar.timestamp,
                        params.short_stop_loss_pct)

\* The immediate exit of process_signals: a Sell or HedgeSell of quantity 0 through
\* the simulator, then the close at its fill price, or at the bar's close.
ExitPrice(exec_result, bar) ==
    IF exec_result.executed THEN exec_result.fill_price ELSE bar.close

\* The entry of process_signals on a Buy or HedgeBuy signal: queued under latency.
QueueEntry(w, symbol, side, quantity, bar_index) ==
    IF quantity >= 1
    THEN Log([w EXCEPT !.sim = QueueOrder(w.sim, symbol, side, quantity, bar_index)],
             [ e |-> "queue_order", side |-> side, quantity |-> quantity,
               bar_index |-> bar_index ])
    ELSE w

\* A Sell arm that puts the exit in the pending queue instead of closing.
SellQueued(w, sig, params, bar, volatility, rnd, bar_index) ==
    Log([w EXCEPT !.sim = QueueOrder(w.sim, sig.symbol, "Sell", 1, bar_index)],
        [ e |-> "queue_order", side |-> "Sell", quantity |-> 1, bar_index |-> bar_index ])

\* The arm SignalType::Sell of process_signals.
SellExit(w, sig, params, bar, volatility, rnd, bar_index) ==
    LET exec_result == SimulateExecution(w.sim.config, bar, "Sell", 0, volatility, rnd)
        w1 == Simulated(w, bar, "Sell", 0, exec_result)
    IN  [w1 EXCEPT !.pf = ClosePosition(@, ExitPrice(exec_result, bar), bar.timestamp,
                                        sig.reason, params.commission)]

\* A HedgeSell arm that, without a hedge bar, closes the hedge at its mark price.
HedgeSellAtMark(w, sig, params, hedge_bar, volatility, rnd, bar_index) ==
    IF hedge_bar = None
    THEN IF HasHedgePosition(w.pf)
         THEN [w EXCEPT !.pf = CloseHedgePosition(@, w.pf.hedge_position[1].current_price,
                                                  bar_index, sig.reason, params.commission)]
         ELSE w
    ELSE LET exec_result == SimulateExecution(w.sim.config, hedge_bar[1], "HedgeSell", 0,
                                              volatility, rnd)
             w1 == Simulated(w, hedge_bar[1], "HedgeSell", 0, exec_result)
         IN  [w1 EXCEPT !.pf = CloseHedgePosition(@, ExitPrice(exec_result, hedge_bar[1]),
                                                  hedge_bar[1].timestamp, sig.reason,
                                                  params.commission)]

\* The arm SignalType::HedgeSell of process_signals.
HedgeSellExit(w, sig, params, hedge_bar, volatility, rnd, bar_index) ==
    IF hedge_bar = None THEN w
    ELSE LET exec_result == SimulateExecution(w.sim.config, hedge_bar[1], "HedgeSell", 0,
                                              volatility, rnd)
             w1 == Simulated(w, hedge_bar[1], "HedgeSell", 0, exec_result)
         IN  [w1 EXCEPT !.pf = CloseHedgePosition(@, ExitPrice(exec_result, hedge_bar[1]),
                                                  hedge_bar[1].timestamp, sig.reason,
                                                  params.commission)]

\* The arm SignalType::Buy of process_signals.
BuyEntry(w, params, bar, bar_index, volatility, rnd) ==
    IF HasLatency(w.sim)
    THEN QueueEntry(w, params.symbol, "Buy",
                    CalculatePositionSize(w.pf, bar.close, params.position_size_pct,
                                          params.cash_reserve_pct),
                    bar_index)
    ELSE ExecuteBuy(w, params, bar, volatility, rnd)

\* The arm SignalType::HedgeBuy of process_signals.
HedgeBuyEntry(w, params, hedge_bar, bar_index, volatility, rnd) ==
    IF hedge_bar = None THEN w
    ELSE IF HasLatency(w.sim)
    THEN QueueEntry(w, params.inverse_symbol, "HedgeBuy",
                    CalculatePositionSize(w.pf, hedge_bar[1].close,
                                          params.short_position_size_pct,
                                          params.cash_reserve_pct),
                    bar_index)
    ELSE ExecuteHedgeBuy(w, params, hedge_bar[1], volatility, rnd)

\* The match on sig.signal_type in process_signals.
Dispatch(w, sig, params, bar, hedge_bar, bar_index, volatility, rnd) ==
    CASE sig.signal_type = "Buy" -> BuyEntry(w, params, bar, bar_index, volatility, rnd)
      [] sig.signal_type = "Sell" -> SellExit(w, sig, params, bar, volatility, rnd, bar_index)
      [] sig.signal_type = "HedgeBuy" ->
           HedgeBuyEntry(w, params, hedge_bar, bar_index, volatility, rnd)
      [] sig.signal_type = "HedgeSell" ->
           HedgeSellExit(w, sig, params, hedge_bar, volatility, rnd, bar_index)
      [] OTHER -> w

\* The stop-loss branch of process_signals.
StopLossExit(w, params, bar, volatility, rnd) ==
    LET exec_result == SimulateExecution(w.sim.config, bar, "Sell", 0, volatility, rnd)
        w1 == Simulated(Log(w, [ e |-> "stop_loss", before |-> w.pf ]), bar, "Sell", 0,
                        exec_result)
    IN  [w1 EXCEPT !.pf = ClosePosition(@, ExitPrice(exec_result, bar), bar.timestamp,
                                        "stop loss", params.commission)]

\* The signal branch of process_signals.
SignalStep(w, params, bar, hedge_bar, indicators, bar_index, volatility, rnd) ==
    LET signal == Generate(params, bar, indicators, HasPosition(w.pf), w.pf.position,
                           HasHedgePosition(w.pf))
        w1 == Log(w, [ e |-> "generate", signal |-> signal, before |-> w.pf ])
    IN  IF IsSome(signal)
        THEN Dispatch(w1, signal[1], params, bar, hedge_bar, bar_index, volatility, rnd)
        ELSE w1

\* A process_signals without the stop-loss check before the generator.
ProcessSignalsUnchecked(w, params, bar, hedge_bar, indicators, bar_index, volatility, rnd) ==
    SignalStep(w, params, bar, hedge_bar, indicators, bar_index, volatility, rnd)

\* A process_signals that goes on to the generator after a stop-loss exit.
ProcessSignalsNoReturn(w, params, bar, hedge_bar, indicators, bar_index, volatility, rnd) ==
    IF HasPosition(w.pf) /\ CheckStopLoss(w.pf, bar.close)
    THEN SignalStep(StopLossExit(w, params, bar, volatility, rnd), params, bar, hedge_bar,
                    indicators, bar_index, volatility, rnd)
    ELSE SignalStep(w, params, bar, hedge_bar, indicators, bar_index, volatility, rnd)

\* BacktestEngine::process_signals
ProcessSignals(w, params, bar, hedge_bar, indicators, bar_index, volatility, rnd) ==
    IF HasPosition(w.pf) /\ CheckStopLoss(w.pf, bar.close)
    THEN StopLossExit(w, params, bar, volatility, rnd)
    ELSE SignalStep(w, params, bar, hedge_bar, indicators, bar_index, volatility, rnd)

\* The body of the loop over the drained orders in process_pending_orders.
ExecuteOrder(w, params, order, bar, hedge_bar, volatility, rnd) ==
    CASE order.side = "Buy" ->
           LET exec_result == SimulateExecution(w.sim.config, bar, "Buy", order.quantity,
                                                volatility, rnd)
           IN  OpenFilled(Simulated(w, bar, "Buy", order.quantity, exec_result), params,
                          order.symbol, exec_result, "Long", bar.timestamp,
                          params.stop_loss_pct)
      [] order.side = "HedgeBuy" ->
           IF hedge_bar = None THEN w
           ELSE LET exec_result == SimulateExecution(w.sim.config, hedge_bar[1], "HedgeBuy",
                                                     order.quantity, volatility, rnd)
                IN  OpenFilled(Simulated(w, hedge_bar[1], "HedgeBuy", order.quantity,
                                         exec_result),
                               params, order.symbol, exec_result, "Hedge",
                               hedge_bar[1].timestamp, params.short_stop_loss_pct)
      [] OTHER -> w

RECURSIVE ExecuteOrders(_, _, _, _, _, _, _, _)
\* `for order in pending_orders { .. }`, from the k-th drained order on.
ExecuteOrders(w, params, orders, k, bar, hedge_bar, volatility, rnds) ==
    IF k > Len(orders) THEN w
    ELSE ExecuteOrders(ExecuteOrder(w, params, orders[k], bar, hedge_bar, volatility, rnds[k]),
                       params, orders, k + 1, bar, hedge_bar, volatility, rnds)

\* BacktestEngine::process_pending_orders
ProcessPendingOrders(w, params, bar, hedge_bar, bar_index, volatility, rnds) ==
    LET got == GetExecutableOrders(w.sim, bar_index)
        w1 == Log([w EXCEPT !.sim = got.sim],
                  [ e |-> "get_executable_orders", bar_index |-> bar_index,
                    ready |-> got.ready, queue |-> w.sim.pending_orders ])
    IN  ExecuteOrders(w1, params, got.ready, 1, bar, hedge_bar, volatility, rnds)

\* An end of run that closes the primary position only.
ClosePrimaryOnly(pf, last_bar, last_hedge_bar) ==
    IF HasPosition(pf)
    THEN ClosePosition(pf, last_bar.close, last_bar.timestamp, "end of backtest", 0)
    ELSE pf

\* An end of run that charges a commission of one dollar on each of its closes.
CloseRemainingCharged(pf, last_bar, last_hedge_bar) ==
    LET p1 == IF HasPosition(pf)
              THEN ClosePosition(pf, last_bar.close, last_bar.timestamp, "end of backtest",
                                 100)
              ELSE pf
    IN  IF HasHedgePosition(p1) /\ IsSome(last_hedge_bar)
        THEN CloseHedgePosition(p1, last_hedge_bar[1].close, last_hedge_bar[1].timestamp,
                                "end of backtest", 100)
        ELSE p1

\* `// Close any remaining positions at end` of run; last_hedge_bar is hedge_bars.last().
CloseRemaining(pf, last_bar, last_hedge_bar) ==
    LET p1 == IF HasPosition(pf)
              THEN ClosePosition(pf, last_bar.close, last_bar.timestamp, "end of backtest", 0)
              ELSE pf
    IN  IF HasHedgePosition(p1) /\ IsSome(last_hedge_bar)
        THEN CloseHedgePosition(p1, last_hedge_bar[1].close, last_hedge_bar[1].timestamp,
                                "end of backtest", 0)
        ELSE p1

(***************************************************************************)
(* backtest-engine/src/indicators/rsi.rs and sma.rs                        *)
(*                                                                         *)
(* Prices are sequences of whole cents, indexed from 1 (prices[k] is the   *)
(* source's prices[k - 1]).  The two averages of calculate_rsi are kept as *)
(* a pair of integers g, l in the ratio avg_gain : avg_loss, together with *)
(* the factor s both were multiplied by (g = avg_gain * s): the RSI reads  *)
(* only the ratio, and the smoothing step multiplied through by s * period *)
(* is  g' = g * (period - 1) + gain * s,  s' = s * period.  The triple is  *)
(* halved while g + l is above RsiScale, which keeps the ratio to within   *)
(* one part in RsiScale / 2, and the RSI is rounded down to a whole number.*)
(***************************************************************************)

RsiScale == 1000000

\* `gain` and `loss` of calculate_rsi for the step to prices[k]
Gain(prices, k) == Max(prices[k] - prices[k - 1], 0)
Loss(prices, k) == Max(prices[k - 1] - prices[k], 0)

RECURSIVE Reduce(_)
Reduce(t) ==
    IF t.g + t.l > RsiScale
    THEN Reduce([g |-> t.g \div 2, l |-> t.l \div 2, s |-> t.s \div 2])
    ELSE IF t.g + t.l = 0 THEN [t EXCEPT !.s = 1]
    ELSE t

\* The sum of f[k] for k in from..to.
RECURSIVE SumOver(_, _, _)
SumOver(f, from, to) == IF to < from THEN 0 ELSE f[to] + SumOver(f, from, to - 1)

\* avg_gain and avg_loss of calculate_rsi after the step to prices[k], k > period
RECURSIVE Averages(_, _, _)
Averages(prices, period, k) ==
    IF k = period + 1
    THEN Reduce([g |-> SumOver([n \in 2..k |-> Gain(prices, n)], 2, k),
                 l |-> SumOver([n \in 2..k |-> Loss(prices, n)], 2, k),
                 s |-> period])
    ELSE LET t == Averages(prices, period, k - 1)
         IN  Reduce([g |-> t.g * (period - 1) + Gain(prices, k) * t.s,
                     l |-> t.l * (period - 1) + Loss(prices, k) * t.s,
                     s |-> t.s * period])

\* A mistaken RSI: the share of the losses.
RsiOfLosses(t) == IF t.g = 0 THEN 100 ELSE (100 * t.l) \div (t.g + t.l)

\* 100 - 100 / (1 + avg_gain / avg_loss), or 100 when avg_loss is 0
RsiOf(t) == IF t.l = 0 THEN 100 ELSE (100 * t.g) \div (t.g + t.l)

\* calculate_rsi, for a period of at least 1
CalculateRsi(prices, period) ==
    [ k \in 1..Len(prices) |->
        IF Len(prices) < period + 1 \/ k <= period THEN 50
        ELSE RsiOf(Averages(prices, period, k)) ]

\* calculate_sma.  The average is rounded up to a whole cent: a close, a whole
\* number of cents, is below the average exactly if it is below the rounded one.
CalculateSma(prices, period) ==
    [ k \in 1..Len(prices) |->
        IF Len(prices) < period \/ period = 0 \/ k < period THEN None
        ELSE Some((SumOver(prices, k - period + 1, k) + period - 1) \div period) ]

(***************************************************************************)
(* backtest-engine/src/metrics.rs                                          *)
(*                                                                         *)
(* A trade here is what the calculator reads of it, its pnl; an equity     *)
(* curve is a sequence of << timestamp, equity >>.  Ratios are f64 in the  *)
(* source and can be infinite or NaN: a ratio is a record of its kind and, *)
(* when finite, its value in hundredths, rounded down.                     *)
(***************************************************************************)

Finite(v) == [ kind |-> "finite", value |-> v ]
Infinity == [ kind |-> "inf", value |-> 0 ]
NotANumber == [ kind |-> "nan", value |-> 0 ]

\* num / den * 100.0 for num >= 0, in hundredths: a division by zero gives
\* infinity, 0.0 / 0.0 gives NaN.
RatioPct(num, den) ==
    IF den > 0 THEN Finite((num * 10000) \div den)
    ELSE IF den < 0 THEN Finite(0 - ((num * 10000) \div (0 - den)))
    ELSE IF num = 0 THEN NotANumber
    ELSE Infinity

\* x > y on f64: false when either is NaN.
Greater(x, y) ==
    CASE x.kind = "nan" \/ y.kind = "nan" -> FALSE
      [] x.kind = "inf" -> y.kind # "inf"
      [] y.kind = "inf" -> FALSE
      [] OTHER -> x.value > y.value

\* The loop of calculate_trade_stats over trades[1..k].
RECURSIVE TradeTotals(_, _)
TradeTotals(trades, k) ==
    IF k = 0
    THEN [ winning |-> 0, losing |-> 0, total_wins |-> 0, total_losses |-> 0 ]
    ELSE LET t == TradeTotals(trades, k - 1)
             pnl == trades[k].pnl
         IN  IF pnl > 0
             THEN [t EXCEPT !.winning = @ + 1, !.total_wins = @ + pnl]
             ELSE IF pnl < 0
             THEN [t EXCEPT !.losing = @ + 1, !.total_losses = @ + (0 - pnl)]
             ELSE t

\* A calculate_trade_stats that takes a trade without loss for a win.
TradeStatsZeroWins(trades) ==
    LET wins == { k \in 1..Len(trades) : trades[k].pnl >= 0 }
        t == TradeTotals(trades, Len(trades))
    IN  [ winning |-> Cardinality(wins),
          losing |-> t.losing,
          profit_factor |-> IF t.total_losses > 0
                            THEN Finite((t.total_wins * 100) \div t.total_losses)
                            ELSE IF wins # {} THEN Infinity
                            ELSE Finite(0) ]

\* MetricsCalculator::calculate_trade_stats: the counts and the profit factor.
CalculateTradeStats(trades) ==
    LET t == TradeTotals(trades, Len(trades))
    IN  IF trades = << >>
        THEN [ winning |-> 0, losing |-> 0, profit_factor |-> Finite(0) ]
        ELSE [ winning |-> t.winning,
               losing |-> t.losing,
               profit_factor |-> IF t.total_losses > 0
                                 THEN Finite((t.total_wins * 100) \div t.total_losses)
                                 ELSE IF t.total_wins > 0 THEN Infinity
                                 ELSE Finite(0) ]

\* `max_equity` after the entries 1..k of the curve.
RECURSIVE MaxEquity(_, _)
MaxEquity(curve, k) ==
    IF k <= 1 THEN curve[1][2]
    ELSE IF curve[k][2] > MaxEquity(curve, k - 1) THEN curve[k][2]
    ELSE MaxEquity(curve, k - 1)

\* A maximum drawdown measured from the first equity instead of the peak.
RECURSIVE DrawdownFromStart(_, _)
DrawdownFromStart(curve, k) ==
    IF k = 0 THEN Finite(0)
    ELSE LET drawdown == RatioPct(Max(curve[1][2] - curve[k][2], 0), curve[1][2])
             before == DrawdownFromStart(curve, k - 1)
         IN  IF Greater(drawdown, before) THEN drawdown ELSE before

\* MetricsCalculator::calculate_max_drawdown over the entries 1..k: max_drawdown.
RECURSIVE CalculateMaxDrawdown(_, _)
CalculateMaxDrawdown(curve, k) ==
    IF k = 0 THEN Finite(0)
    ELSE LET max_equity == MaxEquity(curve, k)
             drawdown == RatioPct(max_equity - curve[k][2], max_equity)
             before == CalculateMaxDrawdown(curve, k - 1)
         IN  IF Greater(drawdown, before) THEN drawdown ELSE before

\* MetricsCalculator::calculate_drawdown_curve, in hundredths of a percent
CalculateDrawdownCurve(curve) ==
    [ k \in 1..Len(curve) |->
        LET max_equity == MaxEquity(curve, k)
        IN  << curve[k][1],
               IF max_equity > 0
               THEN ((max_equity - curve[k][2]) * 10000) \div max_equity
               ELSE 0 >> ]

\* MetricsCalculator::calculate: the return, the maximum drawdown and the trade
\* statistics of the PerformanceMetrics.
CalculateMetrics(curve, trades, initial_capital) ==
    IF curve = << >>
    THEN [ total_return |-> 0, max_drawdown |-> Finite(0), total_trades |-> 0,
           winning_trades |-> 0, losing_trades |-> 0, profit_factor |-> Finite(0) ]
    ELSE LET trade_stats == CalculateTradeStats(trades)
         IN  [ total_return |-> curve[Len(curve)][2] - initial_capital,
               max_drawdown |-> CalculateMaxDrawdown(curve, Len(curve)),
               total_trades |-> Len(trades),
               winning_trades |-> trade_stats.winning,
               losing_trades |-> trade_stats.losing,
               profit_factor |-> trade_stats.profit_factor ]

(***************************************************************************)
(* The inputs of a run: the bars of the two series and, for each bar, the  *)
(* indicator snapshot and the rolling volatility read at its index.        *)
(***************************************************************************)

\* bars[i]: a quiet bar below its VWAP, a falling bar, a thinly traded bar.
PrimaryBars(index) ==
    { Bar(index, 10100, 9900, 10000, 30000, Some(10100)),
      Bar(index, 10000, 9300, 9400, 30000, Some(10000)),
      Bar(index, 10100, 9900, 10000, 7500, None) }

\* hedge_bars[i]
HedgeBars(index) ==
    { Bar(index, 5100, 4900, 5000, 30000, None),
      Bar(index, 4800, 4600, 4700, 30000, None) }

\* indicators.get(i) with `ind_values.vwap = bar.vwap`: the fields the signal
\* generator reads.  With sma_period = 1 the SMA of bar i is its close
\* (calculate_sma over a window of one price), and so is the lower band with
\* bb_period = 1; with bb_period = 2 the band is not read, the Bollinger filter
\* being off.  The RSI is any of five values, one in each range the thresholds
\* 30, 60, 75 and 90 cut.
IndicatorSnapshots(b) ==
    [ rsi : {20, 50, 70, 80, 95},
      sma : {Some(b.close)},
      bb_lower : {b.close},
      vwap : {b.vwap} ]

\* volatilities.get(i).copied(): calculate_volatilities returns zeros for a series
\* of fewer than 21 closes.
Volatilities == {Some(0)}

VARIABLES
    params,         \* BacktestEngine.params
    bars_len,       \* bars.len()
    closes,         \* the closes of bars, for a run on a given series
    hedge_ended,    \* hedge_bars has no bar at an index already read (or is None)
    hedge_seen,     \* the hedge bar read last, if any
    pc,             \* where run is
    i,              \* the loop index of run
    bar,            \* Some(bars[i]) once read
    hedge_bar,      \* hedge_bars.and_then(|h| h.get(i))
    ind_values,     \* the indicator snapshot of bar i
    volatility,     \* volatilities.get(i)
    portfolio,      \* the Portfolio of run
    execution_sim,  \* the ExecutionSimulator of run
    equity_curve,   \* the equity curve of run
    result,         \* Some(BacktestResult) once run has returned
    events,         \* the calls made while processing the current bar
    opens,          \* the calls of open_position that returned Ok
    twin            \* a second call of run with the same parameters and bars

vars == << params, bars_len, closes, hedge_ended, hedge_seen, pc, i, bar, hedge_bar, ind_values,
           volatility, portfolio, execution_sim, equity_curve, result, events, opens,
           twin >>

inputs == << params, bars_len, closes >>

World == [ pf |-> portfolio, sim |-> execution_sim, ev |-> events, opens |-> opens ]

SetWorld(w) ==
    /\ portfolio' = w.pf
    /\ execution_sim' = w.sim
    /\ events' = w.ev
    /\ opens' = w.opens

\* hedge_bars.and_then(|h| h.get(index)): None from the end of the hedge series on.
\* The series is read as the run goes: where it ends is only known from the first
\* index without a bar.
HedgeBarOf(hedge_bars) ==
    IF hedge_ended THEN {None}
    ELSE {None} \cup { Some(b) : b \in hedge_bars }

HedgeBarAt(index) == HedgeBarOf(HedgeBars(index))

\* hedge_bars.and_then(|h| h.last()) after the loop: the bar read last when the
\* series ended within the loop or with the primary series, a bar never read when
\* it is longer than the primary series or ended before the warm-up.
LastHedgeBarOf(first_bars, last_bars) ==
    IF hedge_ended
    THEN IF IsSome(hedge_seen) THEN {hedge_seen}
         ELSE {None} \cup { Some(b) : b \in first_bars }
    ELSE {hedge_seen} \cup { Some(b) : b \in last_bars }

LastHedgeBars == LastHedgeBarOf(HedgeBars(0), HedgeBars(bars_len))

\* The objects run works on, as they are when run is entered.
InitObjects ==
    /\ hedge_ended = FALSE
    /\ hedge_seen = None
    /\ pc = "start"
    /\ i = 0
    /\ bar = None
    /\ hedge_bar = None
    /\ ind_values = None
    /\ volatility = None
    /\ portfolio = NewPortfolio(params.initial_capital)
    /\ execution_sim = NewExecutionSimulator(params.execution)
    /\ equity_curve = << >>
    /\ result = None
    /\ events = << >>
    /\ opens = 0
    /\ twin = [ portfolio |-> NewPortfolio(params.initial_capital),
                execution_sim |-> NewExecutionSimulator(params.execution),
                equity_curve |-> << >>,
                result |-> None ]

\* The state when run is entered with one of `parameters` and a series of one of
\* `lengths` bars.
InitRun(parameters, lengths) ==
    /\ params \in parameters
    /\ bars_len \in lengths
    /\ closes = << >>
    /\ InitObjects

\* The state when run is entered with one of `parameters` and bars whose closes
\* are one of `series`.
InitSeries(parameters, series) ==
    /\ params \in parameters
    /\ closes \in series
    /\ bars_len = Len(closes)
    /\ InitObjects

Init == InitRun(ParameterSet, 0..MaxBars)

\* An empty result that reports no equity at all.
ZeroResult ==
    [ trades |-> << >>, equity_curve |-> << >>, drawdown_curve |-> << >>,
      initial_capital |-> params.initial_capital,
      final_equity |-> 0 ]

\* BacktestEngine::empty_result
EmptyResult ==
    [ trades |-> << >>, equity_curve |-> << >>, drawdown_curve |-> << >>,
      initial_capital |-> params.initial_capital,
      final_equity |-> params.initial_capital ]

\* run, up to the loop: the minimum data check.
RunStart ==
    /\ pc = "start"
    /\ IF bars_len < Warmup(params) + 1
       THEN /\ pc' = "done"
            /\ result' = Some(EmptyResult)
            /\ i' = i
       ELSE /\ pc' = "drain"
            /\ result' = result
            /\ i' = Warmup(params)
    /\ UNCHANGED << inputs, hedge_ended, hedge_seen, bar, hedge_bar, ind_values, volatility,
                    portfolio, execution_sim, equity_curve, events, opens >>

Start == RunStart /\ UNCHANGED twin

\* The loop body up to and including process_pending_orders: bar i is read, then
\* the due orders are drained and executed.
DrainOf(bars, hedge_bars, snapshots) ==
    /\ pc = "drain"
    /\ \E b \in bars, hb \in HedgeBarOf(hedge_bars), vol \in Volatilities :
         \E ind \in snapshots[b] :
           \E rnds \in [ 1..Len(GetExecutableOrders(execution_sim, i).ready)
                           -> Draws(execution_sim.config) ] :
             /\ bar' = Some(b)
             /\ hedge_bar' = hb
             /\ hedge_ended' = (hb = None)
             /\ hedge_seen' = IF IsSome(hb) THEN hb ELSE hedge_seen
             /\ ind_values' = Some(ind)
             /\ volatility' = vol
             /\ SetWorld(ProcessPendingOrders([World EXCEPT !.ev = << >>], params, b, hb, i,
                                              vol, rnds))
    /\ pc' = "signal"
    /\ UNCHANGED << inputs, i, equity_curve, result >>

DrainStep ==
    /\ DrainOf(PrimaryBars(i), HedgeBars(i),
               [ b \in PrimaryBars(i) |-> IndicatorSnapshots(b) ])
    /\ UNCHANGED twin

\* process_signals for bar i
RunSignals ==
    /\ pc = "signal"
    /\ \E rnd \in Draws(execution_sim.config) :
         SetWorld(ProcessSignals(World, params, bar[1], hedge_bar, ind_values[1], i,
                                 volatility, rnd))
    /\ pc' = "mark"
    /\ UNCHANGED << inputs, hedge_ended, hedge_seen, i, bar, hedge_bar, ind_values,
                    volatility, equity_curve, result >>

SignalsStep == RunSignals /\ UNCHANGED twin

\* portfolio.update_prices(bar.close, hedge_bar.map(|h| h.close))
RunMark ==
    /\ pc = "mark"
    /\ portfolio' = UpdatePrices(portfolio, bar[1].close,
                                 IF IsSome(hedge_bar) THEN Some(hedge_bar[1].close) ELSE None)
    /\ events' = Append(events, [ e |-> "update_prices" ])
    /\ pc' = "record"
    /\ UNCHANGED << inputs, hedge_ended, hedge_seen, i, bar, hedge_bar, ind_values,
                    volatility, execution_sim, equity_curve, result, opens >>

MarkStep == RunMark /\ UNCHANGED twin

\* equity_curve.push((bar.timestamp, portfolio.equity())), and the loop's next index
RunRecord ==
    /\ pc = "record"
    /\ equity_curve' = Append(equity_curve, << bar[1].timestamp, Equity(portfolio) >>)
    /\ events' = Append(events, [ e |-> "equity_curve.push" ])
    /\ i' = i + 1
    /\ pc' = IF i + 1 < bars_len THEN "drain" ELSE "finish"
    /\ UNCHANGED << inputs, hedge_ended, hedge_seen, bar, hedge_bar, ind_values, volatility,
                    portfolio, execution_sim, result, opens >>

RecordStep == RunRecord /\ UNCHANGED twin

\* run, after the loop: the remaining positions are closed and the result is built.
FinishOf(last_hedge_bars) ==
    /\ pc = "finish"
    /\ \E last_hedge_bar \in last_hedge_bars :
         /\ portfolio' = CloseRemaining(portfolio, bar[1], last_hedge_bar)
         /\ events' = << [ e |-> "close_remaining", last_bar |-> bar[1],
                           last_hedge_bar |-> last_hedge_bar, before |-> portfolio ] >>
    /\ result' = Some([ trades |-> portfolio'.trades,
                        equity_curve |-> equity_curve,
                        initial_capital |-> params.initial_capital,
                        final_equity |-> Equity(portfolio') ])
    /\ pc' = "done"
    /\ UNCHANGED << inputs, hedge_ended, hedge_seen, i, bar, hedge_bar, ind_values,
                    volatility, execution_sim, equity_curve, opens >>

FinishStep == FinishOf(LastHedgeBars) /\ UNCHANGED twin

Next ==
    \/ Start
    \/ DrainStep
    \/ SignalsStep
    \/ MarkStep
    \/ RecordStep
    \/ FinishStep

Spec == Init /\ [][Next]_vars

\* The runs under latency: the simulator enabled with latency_bars > 0, over a
\* series one bar longer, so that orders queued at two bars both come due.
LatencyParameters ==
    { p \in ParameterSet : p.execution.enabled /\ p.execution.latency_bars > 0 }

InitLatency == InitRun(LatencyParameters, {MaxBars + 1})

SpecLatency == InitLatency /\ [][Next]_vars

\* The runs under latency in which a due order can fail: the pessimistic
\* simulator, which rejects orders, with a latency of one or two bars, a
\* commission, and all the cash put into an entry, so that a fill above the
\* price of the signal bar costs more than the cash.
RejectingParameters ==
    { [DefaultParameters EXCEPT !.execution = [PessimisticConfig EXCEPT !.latency_bars = l],
                                !.commission = 100,
                                !.position_size_pct = 100,
                                !.cash_reserve_pct = 0]
        : l \in 1..MaxLatency }

InitRejecting == InitRun(RejectingParameters, 0..MaxBars)

SpecRejecting == InitRejecting /\ [][Next]_vars

\* The runs of the default parameters, whose entries execute in the bar of their
\* signal, and of the longest latency, whose entries are queued, over a series
\* one bar longer: long enough for the two slots to be filled by queued orders.
MixedParameters ==
    { DefaultParameters,
      [DefaultParameters EXCEPT !.execution = [RealisticConfig EXCEPT !.latency_bars = MaxLatency],
                                !.position_size_pct = 40,
                                !.short_position_size_pct = 40] }

InitMixed == InitRun(MixedParameters, {MaxBars + 1})

SpecMixed == InitMixed /\ [][Next]_vars

\* The runs with position sizes that come out below one share: 30% of 300.00
\* buys no share at 100.00 and one hedge share at 50.00; 10% buys no hedge share
\* either.  With and without latency.
SmallSizeParameters ==
    { [DefaultParameters EXCEPT !.position_size_pct = 30],
      [DefaultParameters EXCEPT !.execution = [RealisticConfig EXCEPT !.latency_bars = 1],
                                !.position_size_pct = 30,
                                !.short_position_size_pct = 10],
      [DefaultParameters EXCEPT !.execution = [RealisticConfig EXCEPT !.latency_bars = 1],
                                !.position_size_pct = 40,
                                !.short_position_size_pct = 30] }

InitSmallSize == InitRun(SmallSizeParameters, 0..MaxBars)

SpecSmallSize == InitSmallSize /\ [][Next]_vars

(***************************************************************************)
(* The runs over a constant-price series: every bar closes at 100.00 (its  *)
(* VWAP absent, equal or above), every hedge bar at 50.00, the simulator   *)
(* disabled and the commission zero.  The indicators are those of a flat   *)
(* series: the SMA and the lower band are the close, the RSI is what       *)
(* calculate_rsi gives.                                                    *)
(***************************************************************************)

ConstantBars(index) ==
    { Bar(index, 10000, 10000, 10000, 30000, vwap) :
        vwap \in { None, Some(10000), Some(10100) } }

ConstantHedgeBars(index) == { Bar(index, 5000, 5000, 5000, 30000, None) }

\* calculate_rsi over equal prices: 50 when the series is shorter than
\* period + 1 and for the indices below the period; from the period on both
\* averages are zero, and `avg_loss == 0.0` gives 100.
ConstantRsi(index) ==
    IF bars_len < params.rsi_period + 1 \/ index < params.rsi_period THEN 50 ELSE 100

ConstantSnapshots(b) ==
    [ rsi : {ConstantRsi(b.timestamp)},
      sma : {Some(b.close)},
      bb_lower : {b.close},
      vwap : {b.vwap} ]

\* Parameters with the simulator disabled and no commission: the defaults, a
\* longer warm-up, no hedging, and an RSI period beyond the warm-up with an
\* oversold threshold the RSI of 50 of the first bars meets.
ConstantParameters ==
    { p \in ParameterSet : ~p.execution.enabled /\ p.commission = 0 }
    \cup { [DefaultParameters EXCEPT !.short_enabled = FALSE],
           [DefaultParameters EXCEPT !.rsi_period = 3, !.rsi_oversold = 50] }

ConstantInit == InitRun(ConstantParameters, 0..MaxBars)

ConstantDrainStep ==
    /\ DrainOf(ConstantBars(i), ConstantHedgeBars(i),
               [ b \in ConstantBars(i) |-> ConstantSnapshots(b) ])
    /\ UNCHANGED twin

ConstantFinishStep ==
    /\ FinishOf(LastHedgeBarOf(ConstantHedgeBars(0), ConstantHedgeBars(bars_len)))
    /\ UNCHANGED twin

ConstantNext ==
    \/ Start
    \/ ConstantDrainStep
    \/ SignalsStep
    \/ MarkStep
    \/ RecordStep
    \/ ConstantFinishStep

ConstantSpec == ConstantInit /\ [][ConstantNext]_vars

(***************************************************************************)
(* The runs over a decline and a recovery: 25 bars starting at 100.00 whose *)
(* close falls by 3% a bar for three bars and then rises by 3% a bar for    *)
(* three bars.  The six moves come after a flat lead-in of any length that  *)
(* leaves them within the series (the close stays where the recovery ends), *)
(* or they repeat to the end of the series.  There is no hedge series, the  *)
(* simulator is disabled, and the indicators are those IndicatorSeries      *)
(* computes from the closes.                                                *)
(***************************************************************************)

ScenarioLen == 25

ScenarioMoves == 3

Down(price) == (price * 97) \div 100

Up(price) == (price * 103) \div 100

\* The close k bars into the moves (k = 1 is the last bar before the decline).
RECURSIVE MovePrice(_)
MovePrice(k) ==
    IF k <= 1 THEN 10000
    ELSE IF k <= 1 + ScenarioMoves THEN Down(MovePrice(k - 1))
    ELSE IF k <= 1 + 2 * ScenarioMoves THEN Up(MovePrice(k - 1))
    ELSE MovePrice(1 + 2 * ScenarioMoves)

\* The close of bar k of the series whose moves repeat.
RECURSIVE CyclePrice(_)
CyclePrice(k) ==
    IF k <= 1 THEN 10000
    ELSE IF (k - 2) % (2 * ScenarioMoves) < ScenarioMoves THEN Down(CyclePrice(k - 1))
    ELSE Up(CyclePrice(k - 1))

ScenarioSeries ==
    { [ k \in 1..ScenarioLen |-> MovePrice(k - lead) ] :
        lead \in 0..(ScenarioLen - 1 - 2 * ScenarioMoves) }
    \cup { [ k \in 1..ScenarioLen |-> CyclePrice(k) ] }

\* bars[index]: the close of the series, the VWAP absent or above the close.
ScenarioBars(index) ==
    LET close == closes[index + 1]
    IN  { Bar(index, close + 50, close - 50, close, 1000000, vwap) :
            vwap \in { None, Some(close + 20) } }

\* indicators.get(i) with `ind_values.vwap = bar.vwap`.  The lower band is not
\* read, the Bollinger filter being off.
ScenarioSnapshots(b) ==
    [ rsi : {CalculateRsi(closes, params.rsi_period)[b.timestamp + 1]},
      sma : {CalculateSma(closes, params.sma_period)[b.timestamp + 1]},
      bb_lower : {0},
      vwap : {b.vwap} ]

\* sma_period = 3 and bb_period = 3, the RSI period of the defaults (2), the
\* simulator disabled; with and without short selling.
ScenarioParameters ==
    { [DefaultParameters EXCEPT !.rsi_period = 2, !.sma_period = 3,
                                !.bb_period = 3, !.short_enabled = short] :
        short \in BOOLEAN }

ScenarioInit == InitSeries(ScenarioParameters, ScenarioSeries)

ScenarioDrainStep ==
    /\ DrainOf(ScenarioBars(i), {}, [ b \in ScenarioBars(i) |-> ScenarioSnapshots(b) ])
    /\ UNCHANGED twin

ScenarioFinishStep == FinishOf({None}) /\ UNCHANGED twin

ScenarioNext ==
    \/ Start
    \/ ScenarioDrainStep
    \/ SignalsStep
    \/ MarkStep
    \/ RecordStep
    \/ ScenarioFinishStep

ScenarioSpec == ScenarioInit /\ [][ScenarioNext]_vars

(***************************************************************************)
(* The MetricsCalculator on its own: calculate_trade_stats, calculate and  *)
(* calculate_drawdown_curve applied to a trade list and an equity curve,   *)
(* as the unit tests of metrics.rs do.  The equity curves are those a run  *)
(* can record: the first equity is positive (the initial capital less the  *)
(* commission of a first entry, marked at the close), or the curve is flat *)
(* at zero, the initial capital being zero.                                *)
(***************************************************************************)

MaxTrades == 3

MaxCurve == 3

\* The sequences over S of at most n elements.
SeqsUpTo(S, n) == UNION { [1..k -> S] : k \in 0..n }

MetricsTrades == SeqsUpTo([ pnl : {-200, 0, 100, 300} ], MaxTrades)

MetricsCurves ==
    { [ k \in 1..Len(c) |-> << k - 1, c[k] >> ] :
        c \in { e \in SeqsUpTo({-100, 0, 9000, 10000, 11000}, MaxCurve) :
                  \/ e = << >>
                  \/ e[1] > 0
                  \/ \A k \in 1..Len(e) : e[k] = 0 } }

\* The state in which run reaches its line 115, with any trades and curve.
MetricsInit ==
    /\ params \in { DefaultParameters, [DefaultParameters EXCEPT !.initial_capital = 0] }
    /\ bars_len = 0
    /\ closes = << >>
    /\ hedge_ended = FALSE
    /\ hedge_seen = None
    /\ pc = "start"
    /\ i = 0
    /\ bar = None
    /\ hedge_bar = None
    /\ ind_values = None
    /\ volatility = None
    /\ \E trades \in MetricsTrades :
         portfolio = [NewPortfolio(params.initial_capital) EXCEPT !.trades = trades]
    /\ execution_sim = NewExecutionSimulator(params.execution)
    /\ equity_curve \in MetricsCurves
    /\ result = None
    /\ events = << >>
    /\ opens = 0
    /\ twin = [ portfolio |-> NewPortfolio(params.initial_capital),
                execution_sim |-> NewExecutionSimulator(params.execution),
                equity_curve |-> << >>,
                result |-> None ]

ApiCalculateTradeStats ==
    /\ pc = "start"
    /\ events' = << [ e |-> "calculate_trade_stats", trades |-> portfolio.trades,
                      stats |-> CalculateTradeStats(portfolio.trades) ] >>
    /\ pc' = "stats"
    /\ UNCHANGED << inputs, hedge_ended, hedge_seen, i, bar, hedge_bar, ind_values,
                    volatility, portfolio, execution_sim, equity_curve, result, opens,
                    twin >>

\* run, lines 115 to 117: the metrics and the drawdown curve of the result
ApiCalculate ==
    /\ pc = "stats"
    /\ result' = Some([ metrics |-> CalculateMetrics(equity_curve, portfolio.trades,
                                                     params.initial_capital),
                        drawdown_curve |-> CalculateDrawdownCurve(equity_curve) ])
    /\ pc' = "done"
    /\ UNCHANGED << inputs, hedge_ended, hedge_seen, i, bar, hedge_bar, ind_values,
                    volatility, portfolio, execution_sim, equity_curve, events, opens,
                    twin >>

MetricsNext ==
    \/ ApiCalculateTradeStats
    \/ ApiCalculate

MetricsSpec == MetricsInit /\ [][MetricsNext]_vars

(***************************************************************************)
(* calculate_rsi on its own, applied to any short price series with a      *)
(* period of 1 to 3, as the unit tests of rsi.rs do.                       *)
(***************************************************************************)

MaxPrices == 4

RsiPrices == SeqsUpTo({9000, 10000, 10300, 11000}, MaxPrices)

RsiInit ==
    /\ InitSeries({ [DefaultParameters EXCEPT !.rsi_period = period] : period \in 1..3 },
                  RsiPrices)

ApiCalculateRsi ==
    /\ pc = "start"
    /\ events' = << [ e |-> "calculate_rsi", prices |-> closes,
                      period |-> params.rsi_period,
                      rsi |-> CalculateRsi(closes, params.rsi_period) ] >>
    /\ pc' = "done"
    /\ UNCHANGED << inputs, hedge_ended, hedge_seen, i, bar, hedge_bar, ind_values,
                    volatility, portfolio, execution_sim, equity_curve, result, opens,
                    twin >>

RsiNext == ApiCalculateRsi

RsiSpec == RsiInit /\ [][RsiNext]_vars

(***************************************************************************)
(* Two calls of run side by side, with the same parameters and reading the *)
(* same bars, hedge bars, indicators and volatilities.  Each call builds   *)
(* its own ExecutionSimulator, and ExecutionSimulator::new takes its       *)
(* generator from rand::thread_rng(): no seed is passed in, so the draws   *)
(* of the second call are chosen apart from those of the first.            *)
(***************************************************************************)

TwinParameters ==
    { DefaultParameters,
      [DefaultParameters EXCEPT !.execution = RealisticConfig],
      [DefaultParameters EXCEPT !.execution = PessimisticConfig] }

TwinWorld ==
    [ pf |-> twin.portfolio, sim |-> twin.execution_sim, ev |-> << >>, opens |-> 0 ]

SetTwin(w) == twin' = [twin EXCEPT !.portfolio = w.pf, !.execution_sim = w.sim]

TwinInit == InitRun(TwinParameters, 0..MaxBars)

TwinStart ==
    /\ RunStart
    /\ twin' = [twin EXCEPT !.result = IF bars_len < Warmup(params) + 1
                                       THEN Some(EmptyResult) ELSE None]

TwinDrainStep ==
    /\ DrainOf(PrimaryBars(i), HedgeBars(i),
               [ b \in PrimaryBars(i) |-> IndicatorSnapshots(b) ])
    /\ \E rnds \in [ 1..Len(GetExecutableOrders(twin.execution_sim, i).ready)
                        -> Draws(twin.execution_sim.config) ] :
         SetTwin(ProcessPendingOrders(TwinWorld, params, bar'[1], hedge_bar', i,
                                      volatility', rnds))

TwinSignalsStep ==
    /\ RunSignals
    /\ \E rnd \in Draws(twin.execution_sim.config) :
         SetTwin(ProcessSignals(TwinWorld, params, bar[1], hedge_bar, ind_values[1], i,
                                volatility, rnd))

TwinMarkStep ==
    /\ RunMark
    /\ twin' = [twin EXCEPT !.portfolio =
                   UpdatePrices(@, bar[1].close,
                                IF IsSome(hedge_bar) THEN Some(hedge_bar[1].close) ELSE None)]

TwinRecordStep ==
    /\ RunRecord
    /\ twin' = [twin EXCEPT !.equity_curve =
                   Append(@, << bar[1].timestamp, Equity(twin.portfolio) >>)]

TwinFinishStep ==
    /\ FinishOf(LastHedgeBars)
    /\ LET closed == CloseRemaining(twin.portfolio, bar[1], events'[1].last_hedge_bar)
       IN twin' = [twin EXCEPT !.portfolio = closed,
                               !.result = Some([ trades |-> closed.trades,
                                                 equity_curve |-> twin.equity_curve,
                                                 initial_capital |-> params.initial_capital,
                                                 final_equity |-> Equity(closed) ])]

TwinNext ==
    \/ TwinStart
    \/ TwinDrainStep
    \/ TwinSignalsStep
    \/ TwinMarkStep
    \/ TwinRecordStep
    \/ TwinFinishStep

TwinSpec == TwinInit /\ [][TwinNext]_vars

(***************************************************************************)
(* The Portfolio on its own: its public methods called in any order with   *)
(* any arguments, as the unit tests of portfolio.rs do.  i counts the      *)
(* calls and serves as the timestamp.                                      *)
(***************************************************************************)

MaxCalls == 3

ApiQuantities == {1, 2}
ApiPrices == {0, 5000, 10000}
ApiCommissions == {0, 100}
ApiSides == {"Long", "Short", "Hedge"}

apiFrame == << inputs, hedge_ended, hedge_seen, pc, bar, hedge_bar, ind_values, volatility,
               equity_curve, result, twin >>

PortfolioInit ==
    /\ InitRun({DefaultParameters}, {0})
    /\ pc = "start"

ApiOpenPosition ==
    /\ i < MaxCalls
    /\ \E quantity \in ApiQuantities, price \in ApiPrices \ {0}, side \in ApiSides,
          commission \in ApiCommissions :
         LET r == OpenPosition(portfolio, params.symbol, quantity, price, side, i, None,
                               commission)
         IN  /\ portfolio' = r.pf
             /\ opens' = opens + (IF r.ok THEN 1 ELSE 0)
             /\ events' = << [ e |-> "open_position", side |-> side, ok |-> r.ok,
                               quantity |-> quantity, price |-> price, timestamp |-> i,
                               commission |-> commission,
                               before |-> portfolio, after |-> r.pf ] >>
    /\ i' = i + 1
    /\ UNCHANGED << apiFrame, execution_sim >>

ApiClosePosition ==
    /\ i < MaxCalls
    /\ \E price \in ApiPrices, commission \in ApiCommissions :
         /\ portfolio' = ClosePosition(portfolio, price, i, "api", commission)
         /\ events' = << [ e |-> "close_position", price |-> price,
                           commission |-> commission, before |-> portfolio ] >>
    /\ i' = i + 1
    /\ UNCHANGED << apiFrame, execution_sim, opens >>

ApiCloseHedgePosition ==
    /\ i < MaxCalls
    /\ \E price \in ApiPrices, commission \in ApiCommissions :
         /\ portfolio' = CloseHedgePosition(portfolio, price, i, "api", commission)
         /\ events' = << [ e |-> "close_hedge_position", price |-> price,
                           commission |-> commission, before |-> portfolio ] >>
    /\ i' = i + 1
    /\ UNCHANGED << apiFrame, execution_sim, opens >>

ApiUpdatePrices ==
    /\ i < MaxCalls
    /\ \E main_price \in ApiPrices \ {0},
          hedge_price \in {None} \cup { Some(x) : x \in ApiPrices \ {0} } :
         /\ portfolio' = UpdatePrices(portfolio, main_price, hedge_price)
         /\ events' = << [ e |-> "update_prices", main_price |-> main_price,
                           hedge_price |-> hedge_price, before |-> portfolio ] >>
    /\ i' = i + 1
    /\ UNCHANGED << apiFrame, execution_sim, opens >>

PortfolioNext ==
    \/ ApiOpenPosition
    \/ ApiClosePosition
    \/ ApiCloseHedgePosition
    \/ ApiUpdatePrices

PortfolioSpec == PortfolioInit /\ [][PortfolioNext]_vars

(***************************************************************************)
(* The latency queue of the ExecutionSimulator on its own: queue_order and *)
(* get_executable_orders called in any order at any bar index, as          *)
(* test_latency_queue does.  i counts the calls.                           *)
(***************************************************************************)

QueueInit == InitRun(ParameterSet, {0})

ApiQueueOrder ==
    /\ i < MaxCalls
    /\ \E side \in {"Buy", "HedgeBuy"}, quantity \in {1},
          current_bar_index \in 0..MaxBars :
         /\ execution_sim' = QueueOrder(execution_sim, params.symbol, side, quantity,
                                        current_bar_index)
         /\ events' = << [ e |-> "queue_order", side |-> side, quantity |-> quantity,
                           bar_index |-> current_bar_index ] >>
    /\ i' = i + 1
    /\ UNCHANGED << apiFrame, portfolio, opens >>

ApiGetExecutableOrders ==
    /\ i < MaxCalls
    /\ \E current_bar_index \in 0..(MaxBars + MaxLatency) :
         LET got == GetExecutableOrders(execution_sim, current_bar_index)
         IN  /\ execution_sim' = got.sim
             /\ events' = << [ e |-> "get_executable_orders",
                               bar_index |-> current_bar_index,
                               ready |-> got.ready,
                               queue |-> execution_sim.pending_orders ] >>
    /\ i' = i + 1
    /\ UNCHANGED << apiFrame, portfolio, opens >>

QueueNext ==
    \/ ApiQueueOrder
    \/ ApiGetExecutableOrders

QueueSpec == QueueInit /\ [][QueueNext]_vars

(***************************************************************************)
(* The SignalGenerator on its own: generate called once on any bar,        *)
(* indicator snapshot and position state, under any setting of the         *)
(* switches of the parameters, as the unit tests of generator.rs do.       *)
(***************************************************************************)

\* The parameters with each of the switches the generator reads on or off.
GeneratorParameters ==
    { [DefaultParameters EXCEPT !.short_enabled = se,
                                !.vwap_filter_enabled = vf,
                                !.vwap_entry_below = vb,
                                !.bb_filter_enabled = bf] :
        se \in BOOLEAN, vf \in BOOLEAN, vb \in BOOLEAN, bf \in BOOLEAN }

\* Bars closing at 100.00 or 94.00, below, at or without a VWAP.
GeneratorBars ==
    PrimaryBars(0) \cup { Bar(0, 10100, 9900, 10000, 30000, Some(10000)) }

\* Indicator snapshots: the RSI on and around each threshold; the SMA, the lower
\* band and the VWAP absent, below, at or above the closes.
GeneratorSnapshots(b) ==
    [ rsi : {20, 30, 50, 60, 70, 75, 80, 90, 95},
      sma : {None, Some(9000), Some(10000), Some(10500)},
      bb_lower : {0, 9000, 10000, 10500},
      vwap : {None, b.vwap, Some(9900)} ]

\* current_position: none, a long without a stop, a long with its stop at 95.00
\* or at 100.00.
GeneratorPositions ==
    { None } \cup
    { Some(Position("TQQQ", 1, 10000, 0, "Long", stop)) :
        stop \in { None, Some(950000), Some(1000000) } }

GeneratorInit ==
    /\ InitRun(GeneratorParameters, {0})
    /\ pc = "start"

ApiGenerate ==
    /\ pc = "start"
    /\ \E b \in GeneratorBars, current_position \in GeneratorPositions,
          has_hedge \in BOOLEAN :
         \E indicators \in GeneratorSnapshots(b) :
           events' = << [ e |-> "generate_call",
                          bar |-> b,
                          indicators |-> indicators,
                          has_position |-> IsSome(current_position),
                          current_position |-> current_position,
                          has_hedge |-> has_hedge,
                          signal |-> Generate(params, b, indicators,
                                              IsSome(current_position),
                                              current_position, has_hedge) ] >>
    /\ pc' = "done"
    /\ UNCHANGED << inputs, hedge_ended, hedge_seen, i, bar, hedge_bar, ind_values,
                    volatility, portfolio, execution_sim, equity_curve, result, opens,
                    twin >>

GeneratorNext == ApiGenerate

GeneratorSpec == GeneratorInit /\ [][GeneratorNext]_vars

(***************************************************************************)
(* simulate_execution on its own: one call on any configuration, bar,      *)
(* side, quantity, volatility and draw, as the unit tests of execution.rs  *)
(* do.                                                                     *)
(***************************************************************************)

\* The configurations: the three presets, and those the tests build from
\* realistic(): a participation cap of 1%, partial fills off, the volume limit
\* off (with the market impact off, the impact of an uncapped order being out of
\* the model's integer range), and always-adverse slippage with spread and
\* impact off, at the magnitudes of realistic() and of pessimistic().
ExecutionConfigs ==
    { DefaultExecutionConfig,
      RealisticConfig,
      PessimisticConfig,
      [RealisticConfig EXCEPT !.volume_participation_max_pct = 1],
      [RealisticConfig EXCEPT !.partial_fill_enabled = FALSE],
      [RealisticConfig EXCEPT !.volume_limit_enabled = FALSE,
                              !.market_impact_enabled = FALSE],
      [RealisticConfig EXCEPT !.slippage_adverse_probability = 100,
                              !.spread_enabled = FALSE,
                              !.market_impact_enabled = FALSE],
      [PessimisticConfig EXCEPT !.slippage_adverse_probability = 100,
                                !.spread_enabled = FALSE,
                                !.market_impact_enabled = FALSE,
                                !.rejection_enabled = FALSE] }

\* sample_bar(close, volume) of the tests
SampleBar(close, volume) ==
    Bar(0, close + 100, close - 100, close, volume, Some(close + 10))

\* Bars with low <= close <= high: sample bars of no, little and much volume, a
\* bar without VWAP, a bar closing on its low with the VWAP on its high.
ExecutionBars ==
    { SampleBar(10000, volume) : volume \in {0, 50, 100000, 1000000} }
    \cup { Bar(0, 10100, 9900, 10000, 7500, None),
           Bar(0, 10000, 9300, 9300, 30000, Some(10000)) }

ExecutionQuantities == {0, 1, 10, 11, 2000}

ExecutionVolatilities == {None, Some(0), Some(50)}

ExecutionInit ==
    /\ InitRun({ [DefaultParameters EXCEPT !.execution = config] :
                   config \in ExecutionConfigs }, {0})
    /\ pc = "start"

ApiSimulateExecution ==
    /\ pc = "start"
    /\ \E b \in ExecutionBars, side \in AllSides, quantity \in ExecutionQuantities,
          vol \in ExecutionVolatilities :
         \E rnd \in Draws(execution_sim.config) :
           events' = << [ e |-> "simulate_call",
                          bar |-> b,
                          side |-> side,
                          quantity |-> quantity,
                          volatility |-> vol,
                          rnd |-> rnd,
                          result |-> SimulateExecution(execution_sim.config, b, side,
                                                       quantity, vol, rnd) ] >>
    /\ pc' = "done"
    /\ UNCHANGED << inputs, hedge_ended, hedge_seen, i, bar, hedge_bar, ind_values,
                    volatility, portfolio, execution_sim, equity_curve, result, opens,
                    twin >>

ExecutionNext == ApiSimulateExecution

ExecutionSpec == ExecutionInit /\ [][ExecutionNext]_vars

(***************************************************************************)
(* Properties of a run, read off `events`, the calls made for the bar in   *)
(* process.                                                                *)
(***************************************************************************)

\* The positions in `events` of the calls named `name`.
EventIdx(name) == { n \in 1..Len(events) : events[n].e = name }

\* The position at which process_signals took its branch: the stop-loss exit
\* or the call of the signal generator.
SignalMarks == { n \in 1..Len(events) : events[n].e \in {"stop_loss", "generate"} }

\* `events` holds the calls of a bar of the loop.
BarEvents == events # << >> /\ events[1].e = "get_executable_orders"

\* The index of the bar `events` belongs to.
BarIndex == bar[1].timestamp

\* The drain comes first and takes exactly the orders due at the bar.
DrainFirst ==
    LET queue == events[1].queue
        ready == events[1].ready
    IN  /\ EventIdx("get_executable_orders") = {1}
        /\ events[1].bar_index = BarIndex
        /\ \A k \in 1..Len(queue) :
             (queue[k].execute_at_bar_index <= BarIndex)
                <=> (\E j \in 1..Len(ready) : ready[j] = queue[k])
        /\ \A j \in 1..Len(ready) : \E k \in 1..Len(queue) : queue[k] = ready[j]
        /\ \A o \in { execution_sim.pending_orders[k] :
                          k \in 1..Len(execution_sim.pending_orders) } :
             o.execute_at_bar_index > BarIndex

\* The drained orders are executed before process_signals takes its branch, and
\* that happens once the drain is over (pc has left "signal").
DrainBeforeSignals ==
    /\ Cardinality(SignalMarks) <= 1
    /\ (SignalMarks = {}) <=> (pc = "signal")
    /\ \A m \in SignalMarks :
         /\ \A k \in 2..(m - 1) :
              /\ events[k].e \in {"simulate_execution", "open_position"}
              /\ events[k].e = "simulate_execution" =>
                   \E j \in 1..Len(events[1].ready) :
                      /\ events[1].ready[j].side = events[k].side
                      /\ events[1].ready[j].quantity = events[k].quantity
         /\ Cardinality({ k \in 2..(m - 1) : events[k].e = "simulate_execution" })
              <= Len(events[1].ready)
         /\ \A k \in (m + 1)..Len(events) :
              events[k].e \in {"simulate_execution", "open_position", "queue_order",
                               "update_prices", "equity_curve.push"}

\* The stop-loss check comes before the signal generator, on the portfolio the
\* drain left: the generator is called only when the check fails.
StopLossBeforeGenerate ==
    \A m \in SignalMarks :
       LET seen == events[m].before
           drained_opens == { k \in 1..(m - 1) : events[k].e = "open_position" }
       IN  /\ (events[m].e = "stop_loss")
                <=> (HasPosition(seen) /\ CheckStopLoss(seen, bar[1].close))
           /\ \A k \in drained_opens :
                (\A k2 \in drained_opens : k2 <= k) => seen = events[k].after

\* Mark-to-market follows the signal step and the equity point follows it.
MarkThenRecord ==
    LET n == Len(events)
    IN  /\ \A u \in EventIdx("update_prices") :
             /\ \E m \in SignalMarks : m < u
             /\ \A k \in 1..(u - 1) :
                  events[k].e \notin {"update_prices", "equity_curve.push"}
             /\ \A k \in (u + 1)..n : k = u + 1 /\ events[k].e = "equity_curve.push"
        /\ pc = "mark" => EventIdx("update_prices") = {}
        /\ pc = "record" =>
             /\ events[n].e = "update_prices"
             /\ HasPosition(portfolio) => portfolio.position[1].current_price = bar[1].close
        /\ pc \in {"drain", "finish"} =>
             /\ events[n].e = "equity_curve.push" /\ events[n - 1].e = "update_prices"
             /\ equity_curve[Len(equity_curve)] = << bar[1].timestamp, Equity(portfolio) >>

\* An order queued by the signal of the bar is not executed in the bar.
QueuedNotExecuted ==
    \A q \in EventIdx("queue_order") :
       /\ \E m \in SignalMarks : m < q /\ events[m].e = "generate"
       /\ \A k \in (q + 1)..Len(events) :
            events[k].e \notin {"simulate_execution", "open_position"}
       /\ \E k \in 1..Len(execution_sim.pending_orders) :
            /\ execution_sim.pending_orders[k].signal_bar_index = BarIndex
            /\ execution_sim.pending_orders[k].execute_at_bar_index > BarIndex

\* C1: while run processes bar i the steps happen in this order: every pending
\* order due at i is executed first, then the stop-loss check, then the signal
\* and its order, then mark-to-market at bars[i].close, then the equity point of
\* bar i; a position opened by a drained order is seen by the stop-loss check and
\* the generator of the same bar, and an order queued by the bar's signal is not
\* executed in the bar.
C1_BarStepOrder ==
    BarEvents =>
      /\ DrainFirst
      /\ DrainBeforeSignals
      /\ StopLossBeforeGenerate
      /\ MarkThenRecord
      /\ QueuedNotExecuted

\* A position opened by a drained order at bar i and closed by the stop loss of
\* the same bar.
C1_DrainedThenStopped ==
    /\ BarEvents
    /\ pc = "mark"
    /\ \E m \in SignalMarks :
         /\ events[m].e = "stop_loss"
         /\ \E k \in 2..(m - 1) :
              /\ events[k].e = "open_position" /\ events[k].ok /\ events[k].side = "Long"
              /\ events[m].before.position = events[k].after.position
    /\ portfolio.position = None
    /\ Len(portfolio.trades) > 0
    /\ LET t == portfolio.trades[Len(portfolio.trades)]
       IN  t.exit_reason = "stop loss" /\ t.entry_date = BarIndex /\ t.exit_date = BarIndex

\* C2: a position is created only by a successful open and removed only by a
\* close that appends one Trade: no successful open_position replaces a position
\* that occupies the primary or the hedge slot, so at the end of a run the number
\* of successful opens equals the number of trades.
C2_NoOpenReplaces ==
    /\ \A k \in EventIdx("open_position") :
         events[k].ok =>
           IF events[k].side = "Hedge"
           THEN events[k].before.hedge_position = None
           ELSE events[k].before.position = None
    /\ pc = "done" => opens = Len(portfolio.trades)

\* C3: the cash of the portfolio is never negative, after any sequence of
\* open_position, close_position, close_hedge_position and update_prices with
\* commissions >= 0 and exit prices >= 0.
C3_CashNonNegative == portfolio.cash >= 0

\* The generator's signal of the bar, if process_signals reached the generator.
GeneratedSignals ==
    { events[m].signal[1] : m \in { n \in EventIdx("generate") : IsSome(events[n].signal) } }

\* The portfolio the signal step of the bar started from.
SignalStepBefore == events[CHOOSE m \in SignalMarks : TRUE].before

\* The trade log grew by exactly one trade since `before`, and `t` is that trade.
OneTradeSince(before, t) == portfolio.trades = Append(before.trades, t)

\* The pending queue holds entries only.
OnlyEntriesQueued ==
    /\ \A k \in 1..Len(execution_sim.pending_orders) :
         execution_sim.pending_orders[k].side \in {"Buy", "HedgeBuy"}
    /\ \A q \in EventIdx("queue_order") : events[q].side \in {"Buy", "HedgeBuy"}

\* A Sell signal of the bar has closed the primary position in the bar.
SellClosesInBar ==
    \A sig \in GeneratedSignals :
       sig.signal_type = "Sell" =>
         /\ HasPosition(SignalStepBefore)
         /\ portfolio.position = None
         /\ \E t \in { portfolio.trades[Len(portfolio.trades)] } :
              /\ OneTradeSince(SignalStepBefore, t)
              /\ t.exit_date = BarIndex
              /\ t.exit_reason = sig.reason
              /\ t.entry_date = SignalStepBefore.position[1].entry_date

\* A HedgeSell signal of the bar has closed the hedge position in the bar.
HedgeSellClosesInBar ==
    \A sig \in GeneratedSignals :
       sig.signal_type = "HedgeSell" =>
         /\ HasHedgePosition(SignalStepBefore)
         /\ portfolio.hedge_position = None
         /\ \E t \in { portfolio.trades[Len(portfolio.trades)] } :
              /\ OneTradeSince(SignalStepBefore, t)
              /\ t.side = "HedgeSell"
              /\ t.exit_date = BarIndex
              /\ t.exit_reason = sig.reason

\* C4 (as amended): exit orders are never queued, the queue holds Buy and
\* HedgeBuy orders only; a Sell signal at bar i closes the primary position within
\* bar i, and a HedgeSell signal at bar i closes the hedge position within bar i
\* provided the hedge series has a bar at index i; with or without latency.
C4_ExitsInBar ==
    /\ OnlyEntriesQueued
    /\ (BarEvents /\ pc # "signal") =>
          /\ SellClosesInBar
          /\ IsSome(hedge_bar) => HedgeSellClosesInBar

\* C4 (as stated): ... whenever the generator returns Sell or HedgeSell at bar i
\* the corresponding position is closed within bar i.
C4_ExitsInBarAlways ==
    /\ OnlyEntriesQueued
    /\ (BarEvents /\ pc # "signal") =>
          /\ SellClosesInBar
          /\ HedgeSellClosesInBar

\* Under latency, a hedge opened by a drained order is closed by the HedgeSell
\* signal of a later bar, within that bar.
C4_HedgeClosedUnderLatency ==
    /\ BarEvents /\ pc = "mark"
    /\ HasLatency(execution_sim)
    /\ \E sig \in GeneratedSignals : sig.signal_type = "HedgeSell"
    /\ IsSome(hedge_bar)
    /\ HasHedgePosition(SignalStepBefore)
    /\ portfolio.hedge_position = None
    /\ portfolio.trades[Len(portfolio.trades)].side = "HedgeSell"

\* The pending orders, in order, that are due (or not) at bar index n when each
\* is due latency_bars after the bar it was queued at.
DueBy(queue, n) ==
    LET due(o) == o.signal_bar_index + params.execution.latency_bars <= n
    IN  SelectSeq(queue, due)

NotDueBy(queue, n) ==
    LET notdue(o) == o.signal_bar_index + params.execution.latency_bars > n
    IN  SelectSeq(queue, notdue)

\* C5: an order queued at bar k with latency_bars = L gets executeAt = k + L;
\* get_executable_orders(i) returns exactly the queued orders with k + L <= i and
\* removes them, and leaves exactly the orders with k + L > i in the queue, so an
\* order is not returned before k + L, is returned by the first call from k + L
\* on, and is returned once.
C5_QueueLatency ==
    /\ \A k \in 1..Len(execution_sim.pending_orders) :
         LET o == execution_sim.pending_orders[k]
         IN  o.execute_at_bar_index = o.signal_bar_index + params.execution.latency_bars
    /\ \A q \in EventIdx("queue_order") :
         LET o == execution_sim.pending_orders[Len(execution_sim.pending_orders)]
         IN  /\ o.signal_bar_index = events[q].bar_index
             /\ o.execute_at_bar_index = events[q].bar_index + params.execution.latency_bars
             /\ o.side = events[q].side /\ o.quantity = events[q].quantity
    /\ \A g \in EventIdx("get_executable_orders") :
         /\ events[g].ready = DueBy(events[g].queue, events[g].bar_index)
         /\ execution_sim.pending_orders = NotDueBy(events[g].queue, events[g].bar_index)
         /\ Len(events[g].ready) + Len(execution_sim.pending_orders) = Len(events[g].queue)

\* A call of get_executable_orders that returns an order queued under latency and
\* leaves another, not yet due, in the queue.
C5_OneReturnedOneKept ==
    /\ params.execution.latency_bars > 0
    /\ \E g \in EventIdx("get_executable_orders") :
         /\ Len(events[g].ready) = 1
         /\ events[g].ready[1].signal_bar_index < events[g].bar_index
    /\ Len(execution_sim.pending_orders) = 1

\* The run has the simulator enabled with a latency of one bar.
LatencyOne == params.execution.enabled /\ params.execution.latency_bars = 1

\* The successful opens of a primary position among the calls of the bar.
LongOpens ==
    { k \in EventIdx("open_position") : events[k].ok /\ events[k].side = "Long" }

\* A Buy signal at bar k opens nothing in bar k: it queues an order due at k + 1.
BuyOpensNothingInBar ==
    \A m \in EventIdx("generate") :
       (IsSome(events[m].signal) /\ events[m].signal[1].signal_type = "Buy") =>
         /\ events[m].before.position = None
         /\ portfolio.position = None
         /\ \A k \in (m + 1)..Len(events) : events[k].e # "open_position"
         /\ \A q \in EventIdx("queue_order") :
              \E n \in 1..Len(execution_sim.pending_orders) :
                 /\ execution_sim.pending_orders[n].side = "Buy"
                 /\ execution_sim.pending_orders[n].signal_bar_index = BarIndex
                 /\ execution_sim.pending_orders[n].execute_at_bar_index = BarIndex + 1

\* A primary position opened in the bar comes from the order of the bar before and
\* is priced, dated and given its stop from the execution against this bar.
OpenedFromThisBar ==
    \A k \in LongOpens :
       /\ \E j \in 1..Len(events[1].ready) :
            /\ events[1].ready[j].side = "Buy"
            /\ events[1].ready[j].signal_bar_index = BarIndex - 1
       /\ events[k - 1].e = "simulate_execution"
       /\ events[k - 1].bar = bar[1]
       /\ events[k - 1].result.executed
       /\ events[k].price = events[k - 1].result.fill_price
       /\ events[k].after.position[1].avg_entry_price = events[k].price
       /\ events[k].after.position[1].entry_date = bar[1].timestamp
       /\ events[k].after.position[1].stop_loss_price =
            Some(events[k].price * (100 - params.stop_loss_pct))

\* The position opened in the bar is held at the end of the bar.
OpenedHeldAtEnd ==
    \A k \in LongOpens :
       /\ HasPosition(portfolio)
       /\ portfolio.position[1]
            = [events[k].after.position[1] EXCEPT !.current_price = bar[1].close]

\* The position opened in the bar was closed in the bar, by the stop-loss check
\* or by a Sell signal.
OpenedClosedInBar ==
    /\ portfolio.position = None
    /\ \/ EventIdx("stop_loss") # {}
       \/ \E sig \in GeneratedSignals : sig.signal_type = "Sell"
    /\ Len(portfolio.trades) > 0
    /\ LET t == portfolio.trades[Len(portfolio.trades)]
       IN  t.entry_date = BarIndex /\ t.exit_date = BarIndex

\* C6 (as amended): with the simulator enabled and latency_bars = 1, a Buy signal
\* at bar k opens no position by the end of bar k; the position its order opens at
\* bar k+1 has the entry price, entry timestamp and stop price of the execution
\* against bar k+1, and it exists at the end of bar k+1 unless the stop-loss check
\* or a Sell signal of bar k+1 closed it in that bar.
C6_BuyOpensAtNextBar ==
    (LatencyOne /\ BarEvents /\ pc # "signal") =>
      /\ BuyOpensNothingInBar
      /\ OpenedFromThisBar
      /\ pc \in {"record", "drain", "finish"} =>
           (LongOpens # {} => (OpenedHeldAtEnd \/ OpenedClosedInBar))

\* C6 (as stated): ... and the position it opens exists at the end of bar k+1.
C6_BuyHeldAtNextBarEnd ==
    (LatencyOne /\ BarEvents /\ pc # "signal") =>
      /\ BuyOpensNothingInBar
      /\ OpenedFromThisBar
      /\ pc \in {"record", "drain", "finish"} => OpenedHeldAtEnd

\* The end of a bar k+1 at which the order of the Buy signal of bar k has opened
\* a position that is still held.
C6_HeldAfterOneBar ==
    /\ LatencyOne /\ BarEvents /\ pc = "record"
    /\ LongOpens # {}
    /\ \E j \in 1..Len(events[1].ready) : events[1].ready[j].signal_bar_index = BarIndex - 1
    /\ HasPosition(portfolio)
    /\ portfolio.position[1].entry_date = BarIndex
    /\ portfolio.position[1].avg_entry_price # bar[1].close

\* Two slots hold the same position, the mark price apart.
SameSlot(a, b) ==
    \/ a = None /\ b = None
    \/ /\ IsSome(a) /\ IsSome(b)
       /\ [a[1] EXCEPT !.current_price = 0] = [b[1] EXCEPT !.current_price = 0]

\* The primary position is held and the bar closes at or below its stop price.
AtOrBelowStop(pf) ==
    /\ HasPosition(pf)
    /\ pf.position[1].side = "Long"
    /\ IsSome(pf.position[1].stop_loss_price)
    /\ bar[1].close * 100 <= pf.position[1].stop_loss_price[1]

\* The stop-loss exit of the bar: the close, its reason and commission, and
\* nothing else done by the signal step.
StopLossExitOnly ==
    \A m \in EventIdx("stop_loss") :
       LET before == events[m].before
           held == before.position[1]
       IN  /\ AtOrBelowStop(before)
           /\ portfolio.position = None
           /\ \E t \in { portfolio.trades[Len(portfolio.trades)] } :
                /\ OneTradeSince(before, t)
                /\ t.exit_reason = "stop loss"
                /\ t.side = "Sell"
                /\ t.exit_date = BarIndex
                /\ t.pnl = held.quantity * t.exit_price - params.commission
                             - held.quantity * held.avg_entry_price
                /\ portfolio.cash
                     = before.cash + held.quantity * t.exit_price - params.commission
           /\ EventIdx("generate") = {}
           /\ EventIdx("queue_order") = {}
           /\ \A k \in (m + 1)..Len(events) :
                /\ events[k].e # "open_position"
                /\ events[k].e = "simulate_execution" =>
                     (events[k].side = "Sell" /\ events[k].quantity = 0)
           /\ Len(execution_sim.pending_orders)
                = Len(events[1].queue) - Len(events[1].ready)
           /\ SameSlot(portfolio.hedge_position, before.hedge_position)

\* The trade of the stop-loss exit of a long opened at 100.00 with
\* stop_loss_pct 5%, at a bar closing at 94.00.
ScenarioTrades ==
    { portfolio.trades[Len(portfolio.trades)] :
        m \in { n \in EventIdx("stop_loss") :
                  /\ events[n].before.position[1].avg_entry_price = 10000
                  /\ params.stop_loss_pct = 5
                  /\ bar[1].close = 9400 } }

\* C7 (as amended): if at bar i a primary position exists and bar.close <= its
\* stop price, the engine closes it in bar i with exit reason "stop loss" and the
\* configured commission and generates no signal in that bar: nothing is queued
\* or opened and the hedge slot is left as it was.  For a long opened at 100 with
\* stop_loss_pct 5% and a bar closing at 94, the trade has pnl_pct -6 when the
\* commission is zero.
C7_StopLossClose ==
    (BarEvents /\ pc # "signal") =>
      /\ AtOrBelowStop(SignalStepBefore) => EventIdx("stop_loss") # {}
      /\ StopLossExitOnly
      /\ params.commission = 0 => \A t \in ScenarioTrades : t.pnl_pct = -600

\* C7 (as stated): ... the resulting trade has pnl_pct of -6.
C7_StopLossCloseMinusSix ==
    (BarEvents /\ pc # "signal") =>
      /\ AtOrBelowStop(SignalStepBefore) => EventIdx("stop_loss") # {}
      /\ StopLossExitOnly
      /\ \A t \in ScenarioTrades : t.pnl_pct = -600

\* A long opened at 100.00 closed by the stop loss at a bar closing at 94.00, at
\* zero commission.
C7_StoppedAtMinusSix ==
    /\ BarEvents /\ pc = "mark"
    /\ params.commission = 0
    /\ \E t \in ScenarioTrades : t.pnl_pct = -600 /\ t.exit_reason = "stop loss"

\* C8: with the simulator enabled, the zero-quantity Sell or HedgeSell the engine
\* submits for an exit returns an executed result with a fill price unless the
\* simulator rejects the order, and the position is closed at that fill price.
C8_ExitFilledBySimulator ==
    params.execution.enabled =>
      \A k \in EventIdx("simulate_execution") :
         (events[k].quantity = 0 /\ events[k].side \in {"Sell", "HedgeSell"}) =>
           \/ events[k].result.notes = << "Order rejected due to market conditions" >>
           \/ /\ events[k].result.executed
              /\ Len(portfolio.trades) > 0
              /\ portfolio.trades[Len(portfolio.trades)].exit_price
                   = events[k].result.fill_price

\* The calls of open_position of the bar that returned InsufficientCash.
FailedOpens == { k \in EventIdx("open_position") : ~events[k].ok }

\* open_position fails exactly when the cost exceeds the cash, and then changes
\* nothing; otherwise it takes the cost from the cash and fills the slot.
OpenFailsOnCost ==
    \A k \in EventIdx("open_position") :
       LET cost == events[k].quantity * events[k].price + events[k].commission
           before == events[k].before
           after == events[k].after
       IN  /\ events[k].ok <=> ~(cost > before.cash)
           /\ ~events[k].ok => after = before
           /\ events[k].ok =>
                /\ after.cash = before.cash - cost
                /\ after.trades = before.trades
                /\ after.realized_pnl = before.realized_pnl
                /\ IF events[k].side = "Hedge"
                   THEN IsSome(after.hedge_position) /\ after.position = before.position
                   ELSE IsSome(after.position)
                          /\ after.hedge_position = before.hedge_position

\* The engine drops a failed open: the order or signal is gone, nothing is queued
\* or opened again for it, and the bar goes on to its mark and equity point.
FailedOpenDropped ==
    \A k \in FailedOpens :
       /\ \A n \in (k + 1)..Len(events) :
            /\ events[n].e # "queue_order"
            /\ events[n].e = "open_position" =>
                 \E m \in SignalMarks : k < m /\ m < n
       /\ \A n \in 1..Len(execution_sim.pending_orders) :
            execution_sim.pending_orders[n].execute_at_bar_index > BarIndex
       /\ (\A n \in (k + 1)..Len(events) : events[n].e # "open_position") =>
            /\ portfolio.cash = events[k].before.cash
            /\ SameSlot(portfolio.position, events[k].before.position)
            /\ SameSlot(portfolio.hedge_position, events[k].before.hedge_position)
       /\ pc = "record" => events[Len(events)].e = "update_prices"
       /\ pc \in {"drain", "finish"} =>
            /\ events[Len(events)].e = "equity_curve.push"
            /\ equity_curve[Len(equity_curve)] = << BarIndex, Equity(portfolio) >>

\* C9: open_position fails with InsufficientCash exactly when
\* quantity*price + commission > cash, and a failed open leaves cash, both slots,
\* realized P&L and the trade log unchanged; the engine ignores the error: the
\* signal or drained order is consumed, no position is created, nothing is
\* retried, and the loop goes on to mark and record equity for the bar.
C9_InsufficientCashIgnored ==
    /\ OpenFailsOnCost
    /\ BarEvents => FailedOpenDropped

\* A bar recorded after an open_position of the bar failed for lack of cash.
C9_FailedOpenThenRecorded ==
    /\ BarEvents
    /\ pc \in {"drain", "finish"}
    /\ \E k \in FailedOpens :
         /\ events[k].quantity * events[k].price + events[k].commission
              > events[k].before.cash
         /\ events[k].quantity * events[k].price <= events[k].before.cash
    /\ portfolio.position = None
    /\ equity_curve[Len(equity_curve)] = << BarIndex, portfolio.cash >>

\* What a slot is worth at `price`: quantity times price, nothing when empty.
PositionValueAt(slot, price) == IF IsSome(slot) THEN slot[1].quantity * price ELSE 0

\* The trade of an end-of-backtest close of `position` at `last`.
EndTrade(position, last, exit_side) ==
    [ entry_date |-> position.entry_date,
      entry_price |-> position.avg_entry_price,
      exit_date |-> last.timestamp,
      exit_price |-> last.close,
      quantity |-> position.quantity,
      side |-> exit_side,
      pnl |-> position.quantity * last.close
                - position.quantity * position.avg_entry_price,
      pnl_pct |-> ((position.quantity * last.close
                      - position.quantity * position.avg_entry_price) * 10000)
                    \div (position.quantity * position.avg_entry_price),
      holding_days |-> last.timestamp - position.entry_date,
      exit_reason |-> "end of backtest" ]

\* The trades the end of the run appends for the positions left in `before`.
EndTrades(before, last_bar, last_hedge_bar) ==
    (IF HasPosition(before)
     THEN << EndTrade(before.position[1], last_bar, "Sell") >> ELSE << >>)
    \o (IF HasHedgePosition(before)
        THEN << EndTrade(before.hedge_position[1], last_hedge_bar[1], "HedgeSell") >>
        ELSE << >>)

\* run has returned the result of a simulation (not the empty result).
Returned == pc = "done" /\ events # << >> /\ events[1].e = "close_remaining"

\* C10: after run returns on a series long enough to simulate no position is
\* left open: a remaining primary position was closed at the last bar's close
\* and a remaining hedge position at the last hedge bar's close, each with exit
\* reason "end of backtest" and zero commission, and each close is a Trade of the
\* result.
C10_NothingLeftOpen ==
    Returned =>
      LET before == events[1].before
      IN  /\ events[1].last_bar.timestamp = bars_len - 1
          /\ portfolio.position = None
          /\ portfolio.hedge_position = None
          /\ HasHedgePosition(before) =>
               /\ IsSome(events[1].last_hedge_bar)
               /\ events[1].last_hedge_bar[1].timestamp >= hedge_seen[1].timestamp
          /\ portfolio.trades
               = before.trades
                   \o EndTrades(before, events[1].last_bar, events[1].last_hedge_bar)
          /\ result[1].trades = portfolio.trades
          /\ portfolio.cash
               = before.cash + PositionValueAt(before.position, events[1].last_bar.close)
                   + (IF HasHedgePosition(before)
                      THEN PositionValueAt(before.hedge_position,
                                           events[1].last_hedge_bar[1].close)
                      ELSE 0)

\* A run that ended with a hedge position open whose series had ended before the
\* last bar: the hedge is closed at the close of the last hedge bar, not at the
\* index of the last bar.
C10_HedgeClosedAtItsLastBar ==
    /\ Returned
    /\ HasHedgePosition(events[1].before)
    /\ events[1].last_hedge_bar[1].timestamp < events[1].last_bar.timestamp
    /\ portfolio.position = None /\ portfolio.hedge_position = None
    /\ LET t == result[1].trades[Len(result[1].trades)]
       IN  /\ t.exit_reason = "end of backtest"
           /\ t.side = "HedgeSell"
           /\ t.exit_price = events[1].last_hedge_bar[1].close
           /\ t.exit_date = events[1].last_hedge_bar[1].timestamp
           /\ t.pnl = t.quantity * t.exit_price - t.quantity * t.entry_price

RECURSIVE SumPnl(_)
\* The sum of pnl over a trade log.
SumPnl(trades) ==
    IF trades = << >> THEN 0
    ELSE trades[Len(trades)].pnl + SumPnl(SubSeq(trades, 1, Len(trades) - 1))

\* `old` is an initial part of `new`: nothing appended to `old` was changed or
\* removed.
IsPrefix(old, new) ==
    /\ Len(old) <= Len(new)
    /\ SubSeq(new, 1, Len(old)) = old

\* C11: in every reachable portfolio state realized_pnl is the sum of pnl over the
\* trades of the log, and the log is append-only: no operation (open, failed
\* open, close, close on an empty slot, update_prices) shortens it or changes an
\* entry already appended.
C11_RealizedIsLogSum ==
    /\ [](portfolio.realized_pnl = SumPnl(portfolio.trades))
    /\ [][IsPrefix(portfolio.trades, portfolio.trades')]_vars

\* A close on an empty slot after a trade with a loss or gain was logged.
C11_EmptyCloseAfterTrade ==
    /\ events # << >>
    /\ events[1].e = "close_position"
    /\ events[1].before.position = None
    /\ Len(portfolio.trades) = 1
    /\ portfolio.trades[1].pnl # 0
    /\ portfolio.realized_pnl = portfolio.trades[1].pnl

\* The quantity held in a slot, zero when it is empty.
QuantityOf(slot) == IF IsSome(slot) THEN slot[1].quantity ELSE 0

\* The mark of the hedge at the bar: the close of the hedge bar of the index when
\* there is one, else the mark the position already carries.
HedgeMark ==
    IF IsSome(hedge_bar) THEN hedge_bar[1].close
    ELSE IF IsSome(portfolio.hedge_position)
    THEN portfolio.hedge_position[1].current_price
    ELSE 0

\* C12: for every processed bar i the equity value appended to the equity curve
\* is cash + primaryQty * bars[i].close + hedgeQty * hedgeMark, hedgeMark being
\* the close of hedge bar i when that bar exists; equity() is always cash plus
\* the sum of quantity * current mark price of the open positions.
C12_EquityPoint ==
    /\ Equity(portfolio)
         = portfolio.cash
             + (IF IsSome(portfolio.position)
                THEN portfolio.position[1].quantity * portfolio.position[1].current_price
                ELSE 0)
             + (IF IsSome(portfolio.hedge_position)
                THEN portfolio.hedge_position[1].quantity
                       * portfolio.hedge_position[1].current_price
                ELSE 0)
    /\ (BarEvents /\ pc \in {"drain", "finish"}) =>
         equity_curve[Len(equity_curve)]
           = << BarIndex,
                portfolio.cash + QuantityOf(portfolio.position) * bar[1].close
                  + QuantityOf(portfolio.hedge_position) * HedgeMark >>

\* An equity point recorded while a hedge is held whose bar closed away from the
\* entry price.
C12_HedgeMarkedAtItsClose ==
    /\ BarEvents /\ pc \in {"drain", "finish"}
    /\ IsSome(hedge_bar)
    /\ HasHedgePosition(portfolio)
    /\ portfolio.hedge_position[1].avg_entry_price # hedge_bar[1].close
    /\ equity_curve[Len(equity_curve)][2]
         = portfolio.cash + portfolio.hedge_position[1].quantity * hedge_bar[1].close

\* C13: close_position on an empty primary slot and close_hedge_position on an
\* empty hedge slot return no Trade and leave cash, realized P&L, the other slot
\* and the trade log unchanged; closing the primary slot never touches the hedge
\* slot and closing the hedge slot never touches the primary slot.
C13_CloseFrame ==
    /\ \A k \in EventIdx("close_position") :
         /\ portfolio.hedge_position = events[k].before.hedge_position
         /\ portfolio.position = None
         /\ events[k].before.position = None => portfolio = events[k].before
         /\ IsSome(events[k].before.position) =>
              Len(portfolio.trades) = Len(events[k].before.trades) + 1
    /\ \A k \in EventIdx("close_hedge_position") :
         /\ portfolio.position = events[k].before.position
         /\ portfolio.hedge_position = None
         /\ events[k].before.hedge_position = None => portfolio = events[k].before
         /\ IsSome(events[k].before.hedge_position) =>
              Len(portfolio.trades) = Len(events[k].before.trades) + 1

\* close_position called on an empty primary slot while a hedge is held.
C13_EmptyCloseBesideHedge ==
    /\ \E k \in EventIdx("close_position") : events[k].before.position = None
    /\ HasHedgePosition(portfolio)
    /\ portfolio.trades = << >>
    /\ portfolio.cash < portfolio.initial_capital

\* The calls of generate made on its own, and the type of the signal of a call
\* ("None" when it returned no signal).
GenerateCalls == { events[n] : n \in EventIdx("generate_call") }

SignalTypeOf(call) ==
    IF IsSome(call.signal) THEN call.signal[1].signal_type ELSE "None"

\* The rules of the generator as conditions on the inputs of a call.
TakeProfitRule(call) ==
    call.has_position /\ call.indicators.rsi >= params.rsi_overbought

StopRule(call) ==
    /\ call.has_position
    /\ IsSome(call.current_position[1].stop_loss_price)
    /\ call.bar.close * 100 <= call.current_position[1].stop_loss_price[1]

HedgeExitRule(call) ==
    /\ params.short_enabled /\ call.has_hedge
    /\ call.indicators.rsi <= params.rsi_oversold_short

HedgeEntryRule(call) ==
    /\ params.short_enabled /\ ~call.has_hedge /\ ~call.has_position
    /\ call.indicators.rsi >= params.rsi_overbought_short

\* C14: the generator applies its rules in fixed precedence, first match wins:
\* (1) with a primary position, Sell when RSI >= rsi_overbought, else Sell when
\* close <= the stop price; (2) with short_enabled and a hedge open, HedgeSell
\* when RSI <= rsi_oversold_short; (3) HedgeBuy only when short_enabled, no hedge,
\* no primary position and RSI >= rsi_overbought_short; (4) Buy only when no
\* primary position; otherwise no signal.  Buy is never returned while a primary
\* position is held, HedgeBuy never while a hedge or a primary position is held.
C14_RulePrecedence ==
    \A call \in GenerateCalls :
       LET type == SignalTypeOf(call)
       IN  /\ CASE TakeProfitRule(call) ->
                     type = "Sell" /\ call.signal[1].reason = "take profit"
                [] StopRule(call) ->
                     type = "Sell" /\ call.signal[1].reason = "Stop loss triggered"
                [] HedgeExitRule(call) -> type = "HedgeSell"
                [] HedgeEntryRule(call) -> type = "HedgeBuy"
                [] OTHER -> type \in {"Buy", "None"}
           /\ type = "Buy" => ~call.has_position
           /\ type = "HedgeBuy" => (~call.has_hedge /\ ~call.has_position)
           /\ type \in {"Sell", "HedgeSell", "HedgeBuy", "Buy", "None"}

\* A call with a position at its stop and a hedge whose exit rule matches too:
\* the Sell of the stop wins over the HedgeSell.
C14_StopBeatsHedgeExit ==
    \E call \in GenerateCalls :
       /\ ~TakeProfitRule(call)
       /\ StopRule(call)
       /\ HedgeExitRule(call)
       /\ SignalTypeOf(call) = "Sell"

\* The VWAP the entry check compares with: the snapshot's, else the bar's.
EntryVwap(call) ==
    IF IsSome(call.indicators.vwap) THEN call.indicators.vwap ELSE call.bar.vwap

\* The conditions of a Buy on the inputs of a call.
RsiOversold(call) == call.indicators.rsi <= params.rsi_oversold

VwapFilterPasses(call) ==
    (params.vwap_filter_enabled /\ params.vwap_entry_below /\ IsSome(EntryVwap(call)))
      => call.bar.close < EntryVwap(call)[1]

TrendFilterPasses(call) ==
    IsSome(call.indicators.sma) => call.bar.close >= call.indicators.sma[1]

BandFilterPasses(call) ==
    (params.bb_filter_enabled /\ call.indicators.bb_lower > 0)
      => call.bar.close <= call.indicators.bb_lower

\* C15: a Buy is returned only if RSI <= rsi_oversold and every enabled filter
\* passes: close < VWAP when the VWAP filter is on with vwap_entry_below and a
\* VWAP is available, close >= SMA when the SMA is defined, close <= lower band
\* when the Bollinger filter is on and the band is > 0; if any fails no Buy is
\* returned, and when all hold and no earlier rule matched the Buy is returned.
C15_BuyFilters ==
    \A call \in GenerateCalls :
       LET passes == /\ RsiOversold(call)
                     /\ VwapFilterPasses(call)
                     /\ TrendFilterPasses(call)
                     /\ BandFilterPasses(call)
       IN  /\ SignalTypeOf(call) = "Buy" => passes
           /\ (passes /\ ~call.has_position /\ ~HedgeExitRule(call)
                  /\ ~HedgeEntryRule(call))
                => SignalTypeOf(call) = "Buy"

\* A Buy returned with every filter on and every input of the filters present.
C15_BuyThroughAllFilters ==
    /\ params.vwap_filter_enabled /\ params.vwap_entry_below /\ params.bb_filter_enabled
    /\ \E call \in GenerateCalls :
         /\ SignalTypeOf(call) = "Buy"
         /\ IsSome(EntryVwap(call))
         /\ IsSome(call.indicators.sma)
         /\ call.indicators.bb_lower > 0

\* C16: for every run that passes the minimum-data check the equity curve has
\* exactly bars.length - warmup entries, warmup = max(sma_period, bb_period), one
\* per bar index from warmup to the last bar, whatever trades, rejections or
\* failed opens occur.
C16_OnePointPerBar ==
    LET warmup == IF params.sma_period >= params.bb_period
                  THEN params.sma_period ELSE params.bb_period
    IN  /\ \A k \in 1..Len(equity_curve) : equity_curve[k][1] = warmup + k - 1
        /\ pc \in {"drain", "finish"} => Len(equity_curve) = i - warmup
        /\ (pc = "done" /\ bars_len >= warmup + 1) =>
             /\ result[1].equity_curve = equity_curve
             /\ Len(result[1].equity_curve) = bars_len - warmup

\* A run with bb_period above sma_period that made a trade and returned one
\* equity point per bar from the warm-up on.
C16_CurveOfTradingRun ==
    /\ Returned
    /\ params.bb_period > params.sma_period
    /\ Len(result[1].trades) >= 1
    /\ Len(result[1].equity_curve) = bars_len - params.bb_period
    /\ Len(result[1].equity_curve) >= 2

\* C17: when bars.length < max(sma_period, bb_period) + 1, run returns without
\* simulating: the equity curve and the drawdown curve are empty, there are no
\* trades, final_equity = initial_capital, and no error is raised.
C17_EmptyResultOnShortSeries ==
    LET warmup == IF params.sma_period >= params.bb_period
                  THEN params.sma_period ELSE params.bb_period
    IN  /\ (bars_len < warmup + 1 /\ pc # "start") =>
             /\ pc = "done"
             /\ IsSome(result)
             /\ result[1].equity_curve = << >>
             /\ result[1].drawdown_curve = << >>
             /\ result[1].trades = << >>
             /\ result[1].final_equity = params.initial_capital
             /\ result[1].initial_capital = params.initial_capital
             /\ events = << >> /\ opens = 0
             /\ portfolio = NewPortfolio(params.initial_capital)
        /\ (bars_len >= warmup + 1 /\ pc = "done") => Returned

\* run returned the empty result on a series that has bars, but one too few for
\* the longer of the two periods.
C17_ReturnedEmpty ==
    /\ pc = "done"
    /\ bars_len = params.bb_period
    /\ bars_len > params.sma_period
    /\ IsSome(result)
    /\ result[1].trades = << >> /\ result[1].equity_curve = << >>
    /\ result[1].final_equity = params.initial_capital

\* C18: with execution.enabled = false and commission = 0, a run over a
\* constant-price bar series (and a constant hedge series if one is supplied)
\* produces zero trades and final_equity = initial_capital, for the default
\* parameters and any other parameter values.
C18_FlatRunTradesNothing ==
    pc = "done" =>
      /\ result[1].trades = << >>
      /\ result[1].final_equity = params.initial_capital

\* C19: two runs with the same parameters and the same bars produce the same
\* BacktestResult, also with the execution simulator enabled with slippage and
\* rejection.
C19_SameResultTwice == pc = "done" => twin.result = result

\* The fill of a disabled simulator: all of `quantity` at the close of `b`, no
\* adjustment, no note.
TrivialFill(r, b, quantity) ==
    /\ r.executed
    /\ r.fill_price = b.close
    /\ r.fill_quantity = quantity
    /\ r.requested_quantity = quantity
    /\ r.price_adjustments.slippage = 0
    /\ r.price_adjustments.spread = 0
    /\ r.price_adjustments.market_impact = 0
    /\ r.price_adjustments.total_adjustment = 0
    /\ r.notes = << >>

\* Once process_signals has run for the bar: simulate_execution against the bar,
\* or the hedge bar, gives the trivial fill for every side, quantity, volatility
\* and draw.
TrivialOnEveryOrder ==
    pc = "mark" =>
    \A b \in { bar[1] } \cup { hedge_bar[k] : k \in 1..Len(hedge_bar) } :
       \A side \in AllSides, quantity \in 0..MaxCalls, vol \in Volatilities :
          \A rnd \in Draws(execution_sim.config) :
             TrivialFill(SimulateExecution(execution_sim.config, b, side, quantity, vol, rnd),
                         b, quantity)

\* The entry signal at position m of `events` was executed at once: the simulator
\* was asked for `quantity` of `side` against `b`, and open_position was called
\* with that quantity at the close of `b`.
ExecutedAtOnce(m, side, slot, b, quantity) ==
    /\ Len(events) >= m + 2
    /\ events[m + 1].e = "simulate_execution"
    /\ events[m + 1].side = side
    /\ events[m + 1].quantity = quantity
    /\ events[m + 1].bar = b
    /\ events[m + 2].e = "open_position"
    /\ events[m + 2].side = slot
    /\ events[m + 2].quantity = quantity
    /\ events[m + 2].price = b.close
    /\ events[m + 2].timestamp = b.timestamp

\* Every entry signal of the bar that has a size of one share or more (and, for
\* the hedge, a hedge bar) was executed in the bar.
EntriesExecutedInBar ==
    \A m \in EventIdx("generate") :
       IsSome(events[m].signal) =>
         LET sig == events[m].signal[1]
             size(price, pct) ==
               CalculatePositionSize(events[m].before, price, pct, params.cash_reserve_pct)
         IN  /\ (sig.signal_type = "Buy" /\ size(bar[1].close, params.position_size_pct) >= 1)
                  => ExecutedAtOnce(m, "Buy", "Long", bar[1],
                                    size(bar[1].close, params.position_size_pct))
             /\ ( /\ sig.signal_type = "HedgeBuy"
                  /\ IsSome(hedge_bar)
                  /\ size(hedge_bar[1].close, params.short_position_size_pct) >= 1 )
                  => ExecutedAtOnce(m, "HedgeBuy", "Hedge", hedge_bar[1],
                                    size(hedge_bar[1].close, params.short_position_size_pct))

\* C20: with execution.enabled = false, simulate_execution always returns
\* executed = true with the fill price bar.close, the requested quantity, zero
\* slippage, spread and impact and no notes, for every side and quantity;
\* has_latency() is false whatever latency_bars is; the engine executes every
\* entry in the bar of its signal and never puts an order in the pending queue.
C20_DisabledSimulator ==
    (~params.execution.enabled /\ BarEvents) =>
      /\ ~HasLatency(execution_sim)
      /\ execution_sim.pending_orders = << >>
      /\ EventIdx("queue_order") = {}
      /\ events[1].ready = << >>
      /\ \A n \in EventIdx("simulate_execution") :
           TrivialFill(events[n].result, events[n].bar, events[n].quantity)
      /\ TrivialOnEveryOrder
      /\ EntriesExecutedInBar

\* A disabled simulator with latency_bars = 1: the Buy of the bar opened the
\* position in the bar, at the close of the bar.
C20_DisabledLatencyBuyOpens ==
    /\ ~params.execution.enabled
    /\ params.execution.latency_bars = 1
    /\ BarEvents
    /\ \E m \in EventIdx("generate") :
         /\ IsSome(events[m].signal)
         /\ events[m].signal[1].signal_type = "Buy"
         /\ ExecutedAtOnce(m, "Buy", "Long", bar[1], events[m + 1].quantity)
         /\ events[m + 2].ok
    /\ HasPosition(portfolio)
    /\ portfolio.position[1].avg_entry_price = bar[1].close

\* The calls of simulate_execution made on the simulator on its own.
SimulateCalls == { events[n] : n \in EventIdx("simulate_call") }

\* floor(bar.volume * volume_participation_max_pct / bar.close)
FloorCap(config, b) == (b.volume * config.volume_participation_max_pct) \div b.close

\* quantity > bar.volume * volume_participation_max_pct / bar.close
ExceedsCap(config, b, quantity) ==
    quantity * b.close > b.volume * config.volume_participation_max_pct

\* The order of call c is rejected by the rejection draw, before its quantity is
\* looked at.
RejectedByDraw(c) ==
    ShouldRejectOrder(execution_sim.config, UnwrapOr(c.volatility, 2), c.rnd)

\* What the volume cap does to the order of call c when it exceeds the cap.
CappedFill(c) ==
    LET config == execution_sim.config
    IN  IF config.partial_fill_enabled /\ FloorCap(config, c.bar) >= 1
        THEN /\ c.result.executed
             /\ c.result.fill_quantity = FloorCap(config, c.bar)
             /\ \E k \in 1..Len(c.result.notes) : c.result.notes[k] = "Partial fill"
        ELSE /\ ~c.result.executed
             /\ c.result.fill_quantity = 0

\* 0 < fill quantity <= requested quantity in an executed result.
FillWithinRequest(c) ==
    c.result.executed =>
      /\ 0 < c.result.fill_quantity
      /\ c.result.fill_quantity <= c.quantity
      /\ c.result.requested_quantity = c.quantity

\* C21, as stated: with the simulator enabled and volume_limit_enabled, an
\* order above the cap is filled with floor(cap) shares and a "Partial fill"
\* note when partial fills are enabled, and is not executed when they are
\* disabled or floor(cap) = 0; an executed result has 0 < fill <= requested.
C21_VolumeCap ==
    \A c \in SimulateCalls :
       (execution_sim.config.enabled /\ execution_sim.config.volume_limit_enabled) =>
         /\ ExceedsCap(execution_sim.config, c.bar, c.quantity) => CappedFill(c)
         /\ FillWithinRequest(c)

\* C21, amended: the same for the orders the rejection draw lets through; an
\* order the draw rejects is not executed, whatever the cap.
C21_VolumeCapUnlessRejected ==
    \A c \in SimulateCalls :
       (execution_sim.config.enabled /\ execution_sim.config.volume_limit_enabled) =>
         /\ (ExceedsCap(execution_sim.config, c.bar, c.quantity) /\ ~RejectedByDraw(c))
              => CappedFill(c)
         /\ RejectedByDraw(c) => (~c.result.executed /\ c.result.fill_quantity = 0)
         /\ FillWithinRequest(c)

\* The order of test_volume_constraint_partial_fill: 2000 shares against a bar
\* of volume 100000 closing at 100.00 under a cap of 1% are filled with 10.
C21_TenOfTwoThousand ==
    \E c \in SimulateCalls :
       /\ execution_sim.config.enabled
       /\ execution_sim.config.volume_limit_enabled
       /\ execution_sim.config.partial_fill_enabled
       /\ execution_sim.config.volume_participation_max_pct = 1
       /\ c.bar.volume = 100000 /\ c.bar.close = 10000
       /\ c.quantity = 2000
       /\ c.result.executed
       /\ c.result.fill_quantity = 10
       /\ c.result.notes = << "Partial fill" >>

\* C22: every executed result of simulate_execution has
\* bar.low <= fill_price <= bar.high, for every side, quantity, volatility and
\* random draw, on a bar with low <= close <= high.
C22_FillWithinBar ==
    \A c \in SimulateCalls :
       (c.bar.low <= c.bar.close /\ c.bar.close <= c.bar.high /\ c.result.executed) =>
         /\ c.bar.low <= c.result.fill_price
         /\ c.result.fill_price <= c.bar.high

\* An executed buy whose adjusted price lies above the bar's high and is filled
\* at the high.
C22_ClampedToHigh ==
    \E c \in SimulateCalls :
       /\ execution_sim.config.enabled
       /\ c.result.executed
       /\ c.bar.low <= c.bar.close /\ c.bar.close <= c.bar.high
       /\ c.result.price_adjustments.base_price + c.result.price_adjustments.total_adjustment
            > c.bar.high
       /\ c.result.fill_price = c.bar.high

\* The configuration of test_slippage_direction: the simulator enabled, the
\* slippage always adverse, no spread, no market impact.
AlwaysAdverse(config) ==
    /\ config.enabled
    /\ config.slippage_adverse_probability = 100
    /\ ~config.spread_enabled
    /\ ~config.market_impact_enabled

\* C23: with slippage_adverse_probability = 1.0 and spread and market impact
\* disabled, every executed order has a slippage adjustment >= 0 for Buy,
\* HedgeBuy and Cover and <= 0 for Sell, HedgeSell and Short, whatever the
\* random draw of the magnitude.
C23_AdverseSlippageSign ==
    \A c \in SimulateCalls :
       (AlwaysAdverse(execution_sim.config) /\ c.result.executed) =>
         /\ c.side \in {"Buy", "HedgeBuy", "Cover"}
              => c.result.price_adjustments.slippage >= 0
         /\ c.side \in {"Sell", "HedgeSell", "Short"}
              => c.result.price_adjustments.slippage <= 0
         /\ c.result.price_adjustments.total_adjustment
              = c.result.price_adjustments.slippage

\* An executed Sell under always-adverse slippage whose slippage is below zero.
C23_SellSlipsDown ==
    \E c \in SimulateCalls :
       /\ AlwaysAdverse(execution_sim.config)
       /\ c.result.executed
       /\ c.side = "Sell"
       /\ c.rnd.slip_adverse > 0
       /\ c.result.price_adjustments.slippage < 0

\* The stop price (times 100) of a fill at `price` under a stop of `pct` percent.
StopOf(price, pct) == IF pct > 0 THEN Some(price * (100 - pct)) ELSE None

\* Every open_position of the bar that succeeded left a position with the stop
\* price of its fill price: stop_loss_pct for the primary position,
\* short_stop_loss_pct for the hedge.
OpenedWithStop ==
    \A k \in EventIdx("open_position") :
       events[k].ok =>
         /\ events[k].side = "Long" =>
               /\ events[k].after.position[1].avg_entry_price = events[k].price
               /\ events[k].after.position[1].stop_loss_price
                    = StopOf(events[k].price, params.stop_loss_pct)
         /\ events[k].side = "Hedge" =>
               /\ events[k].after.hedge_position[1].avg_entry_price = events[k].price
               /\ events[k].after.hedge_position[1].stop_loss_price
                    = StopOf(events[k].price, params.short_stop_loss_pct)

\* The prices check_stop_loss is asked about: closes of the bars and of the hedge
\* bars, prices below them, and the prices on and next to the stop (times 100)
\* of the position held.
StopCheckPrices(pf) ==
    { 4000, 4700, 5000, 9300, 9400, 9500, 9600, 10000, 10500 }
    \cup (IF IsSome(pf.position) /\ IsSome(pf.position[1].stop_loss_price)
          THEN { pf.position[1].stop_loss_price[1] \div 100,
                 pf.position[1].stop_loss_price[1] \div 100 + 1 }
          ELSE {})

\* check_stop_loss(price) on portfolio pf is true exactly when a primary
\* position with a stop price exists and price <= stop (Long) or
\* price >= stop (Short).
StopLossExactly(pf) ==
    \A price \in StopCheckPrices(pf) :
       CheckStopLoss(pf, price)
         <=> /\ pf.position # None
             /\ pf.position[1].stop_loss_price # None
             /\ \/ /\ pf.position[1].side = "Long"
                   /\ price * 100 <= pf.position[1].stop_loss_price[1]
                \/ /\ pf.position[1].side = "Short"
                   /\ price * 100 >= pf.position[1].stop_loss_price[1]

\* The portfolio of the run, and the same portfolio with its primary position
\* turned into a Short, or dropped.
StopCheckPortfolios ==
    { portfolio, [portfolio EXCEPT !.position = None] }
    \cup (IF IsSome(portfolio.position)
          THEN { [portfolio EXCEPT !.position[1].side = "Short"],
                 [portfolio EXCEPT !.position[1].stop_loss_price = None] }
          ELSE {})

\* C24: every position the engine opens gets the stop price
\* fill price * (1 - stop_loss_pct) when stop_loss_pct > 0 and none otherwise
\* (short_stop_loss_pct for the hedge); check_stop_loss(price) is true exactly
\* when a primary position with a stop price exists and price <= stop for Long
\* or price >= stop for Short, and false without a primary position, without a
\* stop price, or with only a hedge position.
C24_StopPriceAndCheck ==
    BarEvents =>
      /\ OpenedWithStop
      /\ \A pf \in StopCheckPortfolios : StopLossExactly(pf)
      /\ portfolio.position = None =>
            \A price \in StopCheckPrices(portfolio) : ~CheckStopLoss(portfolio, price)

\* A bar in which a hedge was opened with the stop of its fill price and is held
\* alone, a price of 40.00 lying below that stop.
C24_HedgeAloneWithStop ==
    /\ BarEvents
    /\ portfolio.position = None
    /\ IsSome(portfolio.hedge_position)
    /\ IsSome(portfolio.hedge_position[1].stop_loss_price)
    /\ portfolio.hedge_position[1].stop_loss_price[1]
         = portfolio.hedge_position[1].avg_entry_price * (100 - params.short_stop_loss_pct)
    /\ 100 * 4000 <= portfolio.hedge_position[1].stop_loss_price[1]
    /\ \E k \in EventIdx("open_position") : events[k].ok /\ events[k].side = "Hedge"

\* q = floor(cash * (1 - cash_reserve_pct) * size_pct / price), the percentages
\* in whole percent.
IsFloorSize(q, cash, price, size_pct, cash_reserve_pct) ==
    /\ q * price * 10000 <= cash * (100 - cash_reserve_pct) * size_pct
    /\ cash * (100 - cash_reserve_pct) * size_pct < (q + 1) * price * 10000

\* The size of the entry the generator asked for at position m of `events`:
\* of the primary position at the bar's close, of the hedge at the hedge bar's.
EntrySize(m) ==
    IF events[m].signal[1].signal_type = "Buy"
    THEN CalculatePositionSize(events[m].before, bar[1].close, params.position_size_pct,
                               params.cash_reserve_pct)
    ELSE CalculatePositionSize(events[m].before, hedge_bar[1].close,
                               params.short_position_size_pct, params.cash_reserve_pct)

\* The entry signals of the bar that the engine sizes: a Buy, or a HedgeBuy with
\* a hedge bar to price it on.
SizedEntries ==
    { m \in EventIdx("generate") :
        /\ IsSome(events[m].signal)
        /\ \/ events[m].signal[1].signal_type = "Buy"
           \/ events[m].signal[1].signal_type = "HedgeBuy" /\ IsSome(hedge_bar) }

\* The entry at m was dropped: process_signals did nothing after the generator,
\* and the portfolio and the pending queue are those the signal step started
\* with.
EntryDropped(m) ==
    /\ \A k \in (m + 1)..Len(events) :
         events[k].e \notin {"simulate_execution", "open_position", "queue_order"}
    /\ execution_sim.pending_orders = NotDueBy(events[1].queue, BarIndex)
    /\ pc = "mark" => portfolio = events[m].before

\* The entry at m went on with `size` shares: to the simulator, or to the queue.
EntryPassedOn(m) ==
    /\ Len(events) > m
    /\ events[m + 1].e \in {"simulate_execution", "queue_order"}
    /\ events[m + 1].quantity = EntrySize(m)

\* C25: calculate_position_size returns
\* floor(cash * (1 - cash_reserve_pct) * size_pct / price), and the engine
\* neither executes nor queues an entry whose size is below 1 share: the signal
\* is consumed, the portfolio and the queue unchanged.  With cash 100, size 0.9
\* and reserve 0, price 50 gives 1 share and the open succeeds, price 1000
\* gives 0 shares.
C25_SizeBelowOneDropped ==
    /\ BarEvents =>
         \A m \in SizedEntries :
            /\ IsFloorSize(EntrySize(m), events[m].before.cash,
                           IF events[m].signal[1].signal_type = "Buy"
                           THEN bar[1].close ELSE hedge_bar[1].close,
                           IF events[m].signal[1].signal_type = "Buy"
                           THEN params.position_size_pct
                           ELSE params.short_position_size_pct,
                           params.cash_reserve_pct)
            /\ IF EntrySize(m) < 1 THEN EntryDropped(m) ELSE EntryPassedOn(m)
    /\ CalculatePositionSize(NewPortfolio(10000), 5000, 90, 0) = 1
    /\ OpenPosition(NewPortfolio(10000), "TQQQ", 1, 5000, "Long", 0, None, 0).ok
    /\ CalculatePositionSize(NewPortfolio(10000), 100000, 90, 0) = 0

\* A Buy signal under latency whose size is 0: nothing was queued, and the
\* portfolio is the one the signal step started with.
C25_BuyOfNoShare ==
    /\ BarEvents
    /\ pc = "mark"
    /\ params.execution.enabled /\ params.execution.latency_bars = 1
    /\ \E m \in SizedEntries :
         /\ events[m].signal[1].signal_type = "Buy"
         /\ EntrySize(m) = 0
         /\ m = Len(events)
         /\ portfolio = events[m].before
    /\ execution_sim.pending_orders = << >>

\* The signal types the generator returned on the current bar.
GeneratedTypes ==
    { events[n].signal[1].signal_type :
        n \in { m \in EventIdx("generate") : IsSome(events[m].signal) } }

\* The current bar closes below the bar before it.
BarDeclines ==
    /\ IsSome(bar) /\ bar[1].timestamp >= 1
    /\ closes[bar[1].timestamp + 1] < closes[bar[1].timestamp]

\* The current bar is oversold and below its SMA.
OversoldBelowSma ==
    /\ IsSome(bar) /\ IsSome(ind_values)
    /\ ind_values[1].rsi <= params.rsi_oversold
    /\ IsSome(ind_values[1].sma)
    /\ bar[1].close < ind_values[1].sma[1]

\* C26 as stated: on the 25-bar series that starts at 100, falls 3% a bar for
\* three bars and then rises 3% a bar for three bars, run with sma_period = 3
\* and bb_period = 3, a Buy fires during the decline and a Sell fires during
\* the recovery: when run returns a position was opened and a trade was closed
\* on a Sell signal.
C26_BuyThenSell ==
    pc = "done" =>
      /\ opens >= 1
      /\ \E k \in 1..Len(result[1].trades) :
           result[1].trades[k].exit_reason # "end of backtest"

\* C26, amended: on that series no Buy fires during the decline.  Every bar
\* whose RSI is at most 30 closes below its 3-bar SMA, so the trend filter
\* refuses the entry; the generator returns neither a Buy nor a Sell on any
\* bar, no position is opened, and the run returns no trade and the initial
\* capital.
C26_DeclineBuysNothing ==
    /\ (IsSome(ind_values) /\ ind_values[1].rsi <= params.rsi_oversold) => OversoldBelowSma
    /\ GeneratedTypes \cap {"Buy", "Sell"} = {}
    /\ opens = 0
    /\ pc = "done" =>
         /\ result[1].trades = << >>
         /\ result[1].final_equity = params.initial_capital

\* A declining bar with an RSI of at most 30 on which the generator was called
\* and returned no signal.
C26_OversoldDeclineRefused ==
    /\ pc = "mark"
    /\ BarDeclines /\ OversoldBelowSma
    /\ EventIdx("generate") # {}
    /\ GeneratedTypes = {}

\* The slot a call of the Portfolio works on, in the portfolio pf.
SlotOf(call, pf) ==
    IF call.e = "close_hedge_position" \/ (call.e = "open_position" /\ call.side = "Hedge")
    THEN pf.hedge_position
    ELSE pf.position

\* The last call opened a position.
Opened == events # << >> /\ events[1].e = "open_position" /\ events[1].ok

\* The last call closed a position, paying no commission.
ClosedFree ==
    /\ events # << >>
    /\ events[1].e \in {"close_position", "close_hedge_position"}
    /\ IsSome(SlotOf(events[1], events[1].before))
    /\ events[1].commission = 0

\* The position the last call closed, and its trade.
ClosedPosition == SlotOf(events[1], events[1].before)[1]
ClosedTrade == portfolio.trades[Len(portfolio.trades)]

\* What open_position does to the cash and to the slot.
OpenTakesCost ==
    LET call == events[1]
        opened == SlotOf(call, portfolio)[1]
    IN  /\ portfolio.cash = call.before.cash - (call.quantity * call.price + call.commission)
        /\ opened.quantity * opened.current_price = call.quantity * call.price

\* update_prices changes the equity by qty * (new mark - old mark) of each
\* position it marks.
MarksMoveEquity ==
    LET call == events[1]
        old == call.before
        main == IF IsSome(old.position)
                THEN old.position[1].quantity
                       * (call.main_price - old.position[1].current_price)
                ELSE 0
        hedge == IF IsSome(old.hedge_position) /\ IsSome(call.hedge_price)
                 THEN old.hedge_position[1].quantity
                        * (call.hedge_price[1] - old.hedge_position[1].current_price)
                 ELSE 0
    IN  Equity(portfolio) - Equity(old) = main + hedge

\* The trade of a close without commission, its pnl being `pnl`.
ClosePays(pnl) ==
    LET pos == ClosedPosition
    IN  /\ ClosedTrade.pnl = pnl
        /\ ClosedTrade.pnl_pct * (pos.quantity * pos.avg_entry_price) = pnl * 10000
        /\ portfolio.cash = events[1].before.cash + pos.quantity * events[1].price

\* A step that closes, at its entry price and without commission, the position
\* the call before opened without commission.
RoundTripStep ==
    /\ Opened /\ events[1].commission = 0
    /\ events'[1].e = (IF events[1].side = "Hedge" THEN "close_hedge_position"
                       ELSE "close_position")
    /\ events'[1].price = events[1].price
    /\ events'[1].commission = 0

\* C27 as stated: opening a position with commission c lowers equity by
\* exactly c (cash falls by qty * price + c, position value is qty * price),
\* update_prices changes equity by qty * (new mark - old mark), and closing at
\* price p with zero commission yields a trade with pnl = qty * (p - entry)
\* and pnl_pct = pnl / (qty * entry) * 100 and raises cash by qty * p.
C27_OpenCloseAccounting ==
    /\ Opened => /\ OpenTakesCost
                 /\ Equity(portfolio) = Equity(events[1].before) - events[1].commission
    /\ (events # << >> /\ events[1].e = "update_prices") => MarksMoveEquity
    /\ ClosedFree =>
         ClosePays(ClosedPosition.quantity
                     * (events[1].price - ClosedPosition.avg_entry_price))

\* C27, amended: opening a position into an empty slot with commission c
\* lowers equity by exactly c (cash falls by qty * price + c, position value is
\* qty * price; a position already in the slot is dropped with its value),
\* update_prices changes equity by qty * (new mark - old mark), and closing at
\* price p with zero commission yields a trade with pnl = qty * (p - entry) for
\* a Long or Hedge position and qty * (entry - p) for a Short one, with
\* pnl_pct = pnl / (qty * entry) * 100, and raises cash by qty * p.  An open
\* followed by a close at the entry price with zero commission restores the
\* cash of before the open and gives pnl = 0.
C27_Accounting ==
    /\ [](/\ Opened =>
              /\ OpenTakesCost
              /\ SlotOf(events[1], events[1].before) = None =>
                    Equity(portfolio) = Equity(events[1].before) - events[1].commission
          /\ (events # << >> /\ events[1].e = "update_prices") => MarksMoveEquity
          /\ ClosedFree =>
                ClosePays(IF ClosedPosition.side = "Short"
                          THEN ClosedPosition.quantity
                                 * (ClosedPosition.avg_entry_price - events[1].price)
                          ELSE ClosedPosition.quantity
                                 * (events[1].price - ClosedPosition.avg_entry_price)))
    /\ [][RoundTripStep =>
            /\ portfolio'.cash = events[1].before.cash
            /\ portfolio'.trades[Len(portfolio'.trades)].pnl = 0]_vars

\* A Long position opened with a commission and closed without one at twice
\* its entry price.
C27_LongClosedAtProfit ==
    /\ ClosedFree
    /\ ClosedPosition.side = "Long"
    /\ events[1].price = 2 * ClosedPosition.avg_entry_price
    /\ portfolio.cash = params.initial_capital - 100
                          + ClosedPosition.quantity * ClosedPosition.avg_entry_price

\* The calls of calculate_trade_stats.
StatsCalls == { events[n] : n \in EventIdx("calculate_trade_stats") }

\* The trades of a list, by the sign of their pnl.
Wins(trades) == { k \in 1..Len(trades) : trades[k].pnl > 0 }
Losses(trades) == { k \in 1..Len(trades) : trades[k].pnl < 0 }

\* The sum of |pnl| over the trades at the indices K.
RECURSIVE SumAbsPnl(_, _)
SumAbsPnl(trades, K) ==
    IF K = {} THEN 0
    ELSE LET k == CHOOSE x \in K : TRUE
             pnl == trades[k].pnl
         IN  (IF pnl < 0 THEN 0 - pnl ELSE pnl) + SumAbsPnl(trades, K \ {k})

\* C28: for every trade list, winning_trades counts the trades with pnl > 0
\* and losing_trades those with pnl < 0, zero-pnl trades are in neither, so
\* winning + losing <= total_trades; profit_factor is sum of wins / sum of
\* |losses| when there are losses, infinity when there are wins and no losses,
\* and 0 when there are no trades or only zero-pnl trades.
C28_TradeStats ==
    /\ \A call \in StatsCalls :
         LET wins == Wins(call.trades)
             losses == Losses(call.trades)
         IN  /\ call.stats.winning = Cardinality(wins)
             /\ call.stats.losing = Cardinality(losses)
             /\ call.stats.winning + call.stats.losing <= Len(call.trades)
             /\ call.stats.profit_factor =
                  (IF losses # {}
                   THEN Finite((SumAbsPnl(call.trades, wins) * 100)
                                 \div SumAbsPnl(call.trades, losses))
                   ELSE IF wins # {} THEN Infinity
                   ELSE Finite(0))
    /\ (pc = "done" /\ equity_curve # << >>) =>
         /\ result[1].metrics.total_trades = Len(portfolio.trades)
         /\ result[1].metrics.winning_trades = Cardinality(Wins(portfolio.trades))
         /\ result[1].metrics.losing_trades = Cardinality(Losses(portfolio.trades))
         /\ result[1].metrics.winning_trades + result[1].metrics.losing_trades
              <= result[1].metrics.total_trades

\* A win, a loss and a trade of pnl 0: one winning, one losing, three trades,
\* and a profit factor of 300 / 200.
C28_WinLossAndFlat ==
    /\ pc = "done" /\ equity_curve # << >>
    /\ portfolio.trades = << [pnl |-> 300], [pnl |-> 0], [pnl |-> -200] >>
    /\ result[1].metrics.winning_trades = 1
    /\ result[1].metrics.losing_trades = 1
    /\ result[1].metrics.total_trades = 3
    /\ result[1].metrics.profit_factor = Finite(150)

\* The largest of the values of a drawdown curve, 0 for an empty one.
MaxOfCurve(curve) ==
    IF curve = << >> THEN 0
    ELSE CHOOSE v \in { curve[k][2] : k \in 1..Len(curve) } :
           \A k \in 1..Len(curve) : curve[k][2] <= v

\* The running peak of the equity curve at entry k.
PeakAt(k) ==
    CHOOSE v \in { equity_curve[n][2] : n \in 1..k } :
      \A n \in 1..k : equity_curve[n][2] <= v

RsiCalls == { events[n] : n \in EventIdx("calculate_rsi") }

StrictlyRising(prices) == \A k \in 2..Len(prices) : prices[k] > prices[k - 1]
StrictlyFalling(prices) == \A k \in 2..Len(prices) : prices[k] < prices[k - 1]

\* C30: calculate_rsi returns an array of the input length with every value
\* in [0, 100]; indices below the period hold 50; on a strictly rising price
\* series of length > period the last value is 100 and on a strictly falling
\* one it is 0.
C30_RsiRange ==
    \A call \in RsiCalls :
      LET n == Len(call.prices)
      IN  /\ DOMAIN call.rsi = 1..n
          /\ \A k \in 1..n : call.rsi[k] >= 0 /\ call.rsi[k] <= 100
          /\ \A k \in 1..n : k - 1 < call.period => call.rsi[k] = 50
          /\ (n > call.period /\ StrictlyRising(call.prices)) => call.rsi[n] = 100
          /\ (n > call.period /\ StrictlyFalling(call.prices)) => call.rsi[n] = 0

\* A rising series of four prices with a period of 2: 50, 50, 100, 100; and the
\* call on a falling one of three ends at 0.
C30_RisingEndsAtHundred ==
    \E call \in RsiCalls :
      /\ call.period = 2
      /\ call.prices = << 9000, 10000, 10300, 11000 >>
      /\ call.rsi = << 50, 50, 100, 100 >>
      /\ CalculateRsi(<< 11000, 10000, 9000 >>, 2)[3] = 0

\* The pending-order queue of the run.
Pending == execution_sim.pending_orders

\* C31: during a run the pending-order queue never holds more than latency_bars
\* orders: at most one order is enqueued per bar, and every order is removed at
\* the first bar whose index reaches its executeAt, so at the end of bar i the
\* queue holds only orders signalled in bars i - latency_bars + 1 .. i.
C31_QueueBounded ==
    /\ Len(Pending) <= params.execution.latency_bars
    /\ Cardinality(EventIdx("queue_order")) <= 1
    /\ \A j, k \in 1..Len(Pending) :
         j < k => Pending[j].signal_bar_index < Pending[k].signal_bar_index
    /\ (pc = "signal" /\ IsSome(bar)) =>
         \A k \in 1..Len(Pending) : Pending[k].execute_at_bar_index > BarIndex
    /\ (pc \in {"mark", "record"} \/ (pc \in {"drain", "finish"} /\ IsSome(bar))) =>
         \A k \in 1..Len(Pending) :
           /\ Pending[k].signal_bar_index >= BarIndex - params.execution.latency_bars + 1
           /\ Pending[k].signal_bar_index <= BarIndex

\* The end of a bar with a latency of two bars and two orders in the queue, one
\* signalled in this bar and one in the bar before.
C31_TwoOrdersQueued ==
    /\ pc = "record"
    /\ params.execution.latency_bars = 2
    /\ Len(Pending) = 2
    /\ Pending[1].signal_bar_index = BarIndex - 1
    /\ Pending[2].signal_bar_index = BarIndex

\* The orders the drain of the current bar took from the queue.
Drained == events[1].ready

\* The drained orders the engine passes to the simulator: every Buy, and a
\* HedgeBuy when the bar has a hedge bar.
Attempted ==
    LET tried(o) == o.side = "Buy" \/ (o.side = "HedgeBuy" /\ IsSome(hedge_bar))
    IN  SelectSeq(Drained, tried)

\* The calls of simulate_execution and of open_position among the calls of the
\* drain, in call order.
DrainCalls(name) ==
    LET named(ev) == ev.e = name
    IN  SelectSeq(events, named)

\* Each drained order is out of the queue, due at this very bar, and tried once:
\* the calls of simulate_execution are those for the attempted orders, one each,
\* and a position is opened only after a fillable execution.
AttemptedOnce ==
    /\ \A k \in 1..Len(Drained) :
         /\ Drained[k].execute_at_bar_index = BarIndex
         /\ \A j \in 1..Len(Pending) :
              Pending[j].signal_bar_index # Drained[k].signal_bar_index
    /\ Len(DrainCalls("simulate_execution")) = Len(Attempted)
    /\ \A k \in 1..Len(Attempted) :
         /\ DrainCalls("simulate_execution")[k].side = Attempted[k].side
         /\ DrainCalls("simulate_execution")[k].quantity = Attempted[k].quantity
    /\ Len(DrainCalls("open_position")) <= Len(Attempted)
    /\ \A n \in EventIdx("open_position") :
         /\ events[n - 1].e = "simulate_execution"
         /\ Fillable(events[n - 1].result)

\* C32: each queued order is attempted exactly once: when it becomes due it is
\* removed from the queue before execution, and if the attempt does not open a
\* position (simulator rejection, fill below 1 share, InsufficientCash, or a
\* HedgeBuy with no hedge bar at that index) it is dropped and never retried.
\* Orders whose executeAt is beyond the last bar index are never executed and
\* leave no trace in the result.
C32_AttemptedOnce ==
    /\ (pc = "signal" /\ BarEvents) => AttemptedOnce
    /\ (pc \in {"signal", "mark", "record"}) =>
         \A k \in 1..Len(Pending) : Pending[k].execute_at_bar_index > BarIndex
    /\ Returned =>
         /\ \A k \in 1..Len(Pending) :
              /\ Pending[k].execute_at_bar_index > bars_len - 1
              /\ \A n \in 1..Len(result[1].trades) :
                   result[1].trades[n].entry_date < Pending[k].execute_at_bar_index
         /\ EventIdx("open_position") = {} /\ EventIdx("simulate_execution") = {}

\* The drain of a bar whose only due order was tried and opened nothing, the
\* order gone from the queue.
C32_FailedAndDropped ==
    /\ pc = "signal" /\ BarEvents
    /\ Len(Drained) = 1
    /\ Len(DrainCalls("simulate_execution")) = 1
    /\ \E n \in EventIdx("open_position") : ~events[n].ok
    /\ Pending = << >>
    /\ ~HasPosition(portfolio) /\ ~HasHedgePosition(portfolio)


\* C33: with latency disabled, after run returns final_equity = initial_capital
\* + (sum of pnl over all trades) - commission * (number of trades): each trade's
\* pnl carries its exit commission but not its entry commission, and every
\* position opened was closed exactly once.
C33_FinalEquity ==
    (pc = "done" /\ IsSome(result) /\ ~HasLatency(execution_sim)) =>
      /\ result[1].final_equity
           = params.initial_capital + SumPnl(result[1].trades)
               - params.commission * Len(result[1].trades)
      /\ Returned => opens = Len(result[1].trades)

\* A run without latency, with a commission, that logged a trade closed in the
\* loop and a trade closed at the end of the backtest.
C33_TwoTradesWithCommission ==
    /\ Returned /\ ~HasLatency(execution_sim)
    /\ params.commission > 0
    /\ Len(result[1].trades) >= 2
    /\ \E n \in 1..Len(result[1].trades) :
         result[1].trades[n].exit_reason # "end of backtest"
    /\ result[1].trades[Len(result[1].trades)].exit_reason = "end of backtest"
    /\ result[1].final_equity # params.initial_capital


\* The thresholds of the run put the entry at or below the hedge exit.
EntryBelowHedgeExit == params.rsi_oversold <= params.rsi_oversold_short

\* C34: with latency disabled and rsi_oversold <= rsi_oversold_short a primary
\* position and a hedge position are never open at the same time, neither in a
\* state of the run between two steps of the loop nor before or after a call of
\* open_position inside a step.
C34_NeverBothOpen ==
    (~HasLatency(execution_sim) /\ EntryBelowHedgeExit) =>
      /\ ~(HasPosition(portfolio) /\ HasHedgePosition(portfolio))
      /\ BarEvents =>
           \A n \in EventIdx("open_position") :
             /\ ~HasPosition(events[n].before) /\ ~HasHedgePosition(events[n].before)
             /\ ~(HasPosition(events[n].after) /\ HasHedgePosition(events[n].after))

\* A bar at which the hedge is open and the RSI is at or below rsi_oversold, the
\* condition of a Buy: the generator answers HedgeSell, there is no hedge bar of
\* the index, the hedge stays open and no primary position is opened.
C34_OversoldUnderHedge ==
    /\ pc = "mark" /\ ~HasLatency(execution_sim) /\ EntryBelowHedgeExit
    /\ ind_values[1].rsi <= params.rsi_oversold
    /\ hedge_bar = None
    /\ \E n \in EventIdx("generate") :
         /\ HasHedgePosition(events[n].before)
         /\ IsSome(events[n].signal)
         /\ events[n].signal[1].signal_type = "HedgeSell"
    /\ HasHedgePosition(portfolio) /\ ~HasPosition(portfolio)


\* The hedge series is absent (or holds no bar): no hedge bar was read in the loop
\* and there is none after it.
HedgeSeriesAbsent == hedge_seen = None /\ events[1].last_hedge_bar = None

\* The hedge series is as long as the primary series: its last bar is the hedge
\* bar of the last index.
HedgeSeriesSameLength == IsSome(hedge_bar) /\ events[1].last_hedge_bar = hedge_bar

\* C35: for every run with a non-empty equity curve in which the hedge series is
\* absent or has the length of the primary series, final_equity equals the last
\* value of the equity curve.
C35_FinalIsLastPoint ==
    ( /\ pc = "done" /\ IsSome(result) /\ result[1].equity_curve # << >>
      /\ Returned
      /\ HedgeSeriesAbsent \/ HedgeSeriesSameLength ) =>
      result[1].final_equity
        = result[1].equity_curve[Len(result[1].equity_curve)][2]

\* A run over series of the same length that ended with the hedge open and away
\* from its entry price: the hedge was closed after the last point of the curve
\* was recorded, and final_equity is that point.
C35_HedgeClosedAfterLastPoint ==
    /\ Returned /\ HedgeSeriesSameLength
    /\ HasHedgePosition(events[1].before)
    /\ events[1].before.hedge_position[1].avg_entry_price # hedge_bar[1].close
    /\ result[1].final_equity # params.initial_capital
    /\ result[1].final_equity
         = result[1].equity_curve[Len(result[1].equity_curve)][2]


\* The step takes the hedge position out of its slot, or logs a trade of it.
HedgeCloses ==
    \/ IsSome(portfolio.hedge_position) /\ portfolio'.hedge_position = None
    \/ \E n \in (Len(portfolio.trades) + 1)..Len(portfolio'.trades) :
         portfolio'.trades[n].side = "HedgeSell"

\* The step is the signal step of a bar whose signal is HedgeSell, past the
\* stop-loss pre-check, with a hedge bar of the index.
HedgeSellStep ==
    /\ pc = "signal"
    /\ IsSome(hedge_bar)
    /\ EventIdx("stop_loss")' = {}
    /\ \E n \in EventIdx("generate")' :
         /\ IsSome(events'[n].signal)
         /\ events'[n].signal[1].signal_type = "HedgeSell"
    /\ portfolio'.trades[Len(portfolio'.trades)].exit_reason = "close hedge"

\* The step is the close of the remaining positions after the loop.
EndOfBacktestStep ==
    /\ pc = "finish"
    /\ portfolio'.trades[Len(portfolio'.trades)].exit_reason = "end of backtest"

\* C36: a hedge position is closed only by a HedgeSell signal or by the close at
\* the end of the backtest; no step that only marks prices closes it, whatever
\* the hedge price against the stop price of the position; and the stop-loss
\* pre-check of a bar leaves the hedge slot as it found it.
C36_HedgeClosedBySignalOrEnd ==
    /\ [][HedgeCloses => (HedgeSellStep \/ EndOfBacktestStep)]_vars
    /\ []((pc = "mark" /\ BarEvents) =>
            \A m \in EventIdx("stop_loss") :
               portfolio.hedge_position = events[m].before.hedge_position)
    /\ [](\A n \in 1..Len(portfolio.trades) :
            portfolio.trades[n].side = "HedgeSell" =>
              portfolio.trades[n].exit_reason \in {"close hedge", "end of backtest"})

\* A bar marked with the hedge at or below the stop price it was opened with: the
\* hedge is still held, and no trade of it was logged.
C36_HedgeHeldBelowItsStop ==
    /\ pc = "record" /\ BarEvents
    /\ IsSome(hedge_bar)
    /\ HasHedgePosition(portfolio)
    /\ IsSome(portfolio.hedge_position[1].stop_loss_price)
    /\ portfolio.hedge_position[1].entry_date < BarIndex
    /\ portfolio.hedge_position[1].current_price = hedge_bar[1].close
    /\ hedge_bar[1].close * 100 <= portfolio.hedge_position[1].stop_loss_price[1]
    /\ \A n \in 1..Len(portfolio.trades) : portfolio.trades[n].side # "HedgeSell"


\* A primary position is held in `pf` with a stop price, and the bar closes at or
\* below it.
HeldAtOrBelowStop(pf) ==
    /\ HasPosition(pf)
    /\ IsSome(pf.position[1].stop_loss_price)
    /\ bar[1].close * 100 <= pf.position[1].stop_loss_price[1]

\* C37: whenever process_signals finds a primary position held and the bar's
\* close at or below its stop price, the position is closed with the exit reason
\* "stop loss" and the generator is not asked, whatever the RSI of the bar; the
\* generator is asked only with no such position, so its own stop-loss Sell
\* closes nothing and no trade carries its reason "Stop loss triggered".
C37_StopLossBeforeGenerator ==
    /\ (pc = "mark" /\ BarEvents) =>
         /\ \A m \in EventIdx("stop_loss") :
              /\ HeldAtOrBelowStop(events[m].before)
              /\ EventIdx("generate") = {}
              /\ portfolio.position = None
              /\ Len(portfolio.trades) = Len(events[m].before.trades) + 1
              /\ portfolio.trades[Len(portfolio.trades)].exit_reason = "stop loss"
              /\ portfolio.trades[Len(portfolio.trades)].entry_date
                   = events[m].before.position[1].entry_date
         /\ \A n \in EventIdx("generate") :
              /\ EventIdx("stop_loss") = {}
              /\ ~HeldAtOrBelowStop(events[n].before)
              /\ IsSome(events[n].signal) =>
                   events[n].signal[1].reason # "Stop loss triggered"
         /\ EventIdx("stop_loss") \cup EventIdx("generate") # {}
    /\ \A n \in 1..Len(portfolio.trades) :
         portfolio.trades[n].exit_reason # "Stop loss triggered"

\* A bar closing at or below the stop of the position held while its RSI is at
\* or above rsi_overbought: the trade is logged as "stop loss", not as the
\* generator's take profit.
C37_StopLossWhileOverbought ==
    /\ pc = "mark" /\ BarEvents
    /\ ind_values[1].rsi >= params.rsi_overbought
    /\ \E m \in EventIdx("stop_loss") : HeldAtOrBelowStop(events[m].before)
    /\ portfolio.trades[Len(portfolio.trades)].exit_reason = "stop loss"
    /\ portfolio.trades[Len(portfolio.trades)].exit_date = BarIndex


\* Where the signal step of the bar begins in `events`: at its stop_loss or at
\* its generate event.
SignalStart == EventIdx("stop_loss") \cup EventIdx("generate")

\* The entries of the signal step of the bar: the opens and the queued orders
\* logged from its beginning on.
SignalEntries ==
    { k \in EventIdx("open_position") \cup EventIdx("queue_order") :
        \E m \in SignalStart : k > m }

\* The step is not the close of the remaining positions after the loop.
InLoop == pc # "finish"

\* C38: in the loop at most one Trade is appended per bar, and only by the signal
\* step; the signal step of a bar makes at most one entry (an open or a queued
\* order); a bar whose signal step appends a Trade (stop-loss, Sell or
\* HedgeSell) makes no entry in that step and leaves the queue as the drain left
\* it; only the close after the loop appends two trades in one step.
C38_OneTradeOneEntryPerBar ==
    /\ [][InLoop => /\ Len(portfolio'.trades) <= Len(portfolio.trades) + 1
                    /\ pc # "signal" => portfolio'.trades = portfolio.trades]_vars
    /\ []((pc = "mark" /\ BarEvents) =>
            /\ Cardinality(SignalStart) = 1
            /\ Cardinality(SignalEntries) <= 1
            /\ \A m \in SignalStart :
                 Len(portfolio.trades) > Len(events[m].before.trades) =>
                   /\ SignalEntries = {}
                   /\ Len(Pending) = Len(events[1].queue) - Len(events[1].ready)
                   /\ IsSome(portfolio.position) =>
                        portfolio.position = events[m].before.position
                   /\ IsSome(portfolio.hedge_position) =>
                        portfolio.hedge_position = events[m].before.hedge_position)

\* A run that ended with both slots filled: the close after the loop appended
\* two trades in one step, the loop having appended at most one per bar.
C38_TwoTradesAtTheEnd ==
    /\ Returned
    /\ HasPosition(events[1].before) /\ HasHedgePosition(events[1].before)
    /\ Len(portfolio.trades) = Len(events[1].before.trades) + 2


\* A slot is empty or holds a position of the side `side` and of a whole number
\* of shares, at least one.
HoldsOnly(slot, side) ==
    IsSome(slot) => /\ slot[1].side = side
                    /\ slot[1].quantity \in Nat
                    /\ slot[1].quantity >= 1

\* C39: the engine never creates a Short position and never emits Short or
\* Cover: the primary slot holds a Long position or nothing, the hedge slot a
\* Hedge position or nothing, every trade has the side Sell or HedgeSell, every
\* position and every trade is of a whole number of shares >= 1, and the
\* signals, the simulated orders and the queued orders of a bar are of the sides
\* Buy, Sell, HedgeBuy and HedgeSell only.
C39_LongAndHedgeOnly ==
    /\ HoldsOnly(portfolio.position, "Long")
    /\ HoldsOnly(portfolio.hedge_position, "Hedge")
    /\ \A n \in 1..Len(portfolio.trades) :
         /\ portfolio.trades[n].side \in {"Sell", "HedgeSell"}
         /\ portfolio.trades[n].quantity \in Nat
         /\ portfolio.trades[n].quantity >= 1
    /\ \A k \in 1..Len(Pending) :
         /\ Pending[k].side \in {"Buy", "HedgeBuy"}
         /\ Pending[k].quantity >= 1
    /\ BarEvents =>
         /\ \A n \in EventIdx("generate") :
              IsSome(events[n].signal) =>
                events[n].signal[1].signal_type \in {"Buy", "Sell", "HedgeBuy", "HedgeSell"}
         /\ \A n \in EventIdx("simulate_execution") :
              events[n].side \in {"Buy", "Sell", "HedgeBuy", "HedgeSell"}
         /\ \A n \in EventIdx("open_position") :
              /\ events[n].side \in {"Long", "Hedge"}
              /\ events[n].quantity >= 1

\* A bar in which the simulator filled a part of the order only: the position
\* opened is a Long of fewer shares than were asked for, and of at least one.
C39_PartFilledLong ==
    /\ BarEvents
    /\ \E s \in EventIdx("simulate_execution"), n \in EventIdx("open_position") :
         /\ n = s + 1
         /\ events[n].ok /\ events[n].side = "Long"
         /\ events[n].quantity < events[s].quantity
         /\ events[n].quantity >= 1
    /\ HasPosition(portfolio)
    /\ portfolio.position[1].side = "Long"


\* The signals of the bar that ask for a hedge entry or a hedge exit.
HedgeSignals ==
    { n \in EventIdx("generate") :
        /\ IsSome(events[n].signal)
        /\ events[n].signal[1].signal_type \in {"HedgeBuy", "HedgeSell"} }

\* The step works on a bar that has no hedge bar: the drain that reads none, or a
\* later step of such a bar.
StepWithoutHedgeBar ==
    \/ pc = "drain" /\ hedge_bar' = None
    \/ pc \in {"signal", "mark", "record"} /\ hedge_bar = None

\* C40: at a bar without a hedge bar a HedgeBuy or HedgeSell signal is consumed
\* with no effect: the portfolio (cash, both slots, trade log) is as it was
\* before the signal step and the queue as the drain left it, nothing is
\* simulated, opened or queued, and the bar has no other signal, so no Buy.  An
\* open hedge stays in its slot with its mark price through every step of such a
\* bar.
C40_NoHedgeBarNoEffect ==
    /\ []((pc = "mark" /\ BarEvents /\ hedge_bar = None) =>
            \A n \in HedgeSignals :
               /\ portfolio = events[n].before
               /\ Len(events) = n
               /\ EventIdx("generate") = {n}
               /\ Len(Pending) = Len(events[1].queue) - Len(events[1].ready)
               /\ \A k \in 1..Len(Pending) : Pending[k].signal_bar_index < BarIndex)
    /\ [][StepWithoutHedgeBar => portfolio'.hedge_position = portfolio.hedge_position]_vars

\* A bar without a hedge bar at which the generator asked for the hedge exit:
\* after update_prices the hedge is held as before the signal, marked at the
\* close of the last hedge bar read, and no trade was logged.
C40_HedgeSellConsumed ==
    /\ pc = "record" /\ BarEvents /\ hedge_bar = None
    /\ \E n \in HedgeSignals :
         /\ events[n].signal[1].signal_type = "HedgeSell"
         /\ HasHedgePosition(events[n].before)
         /\ portfolio.hedge_position = events[n].before.hedge_position
         /\ portfolio.trades = events[n].before.trades
         /\ portfolio.cash = events[n].before.cash
    /\ IsSome(hedge_seen)
    /\ portfolio.hedge_position[1].current_price = hedge_seen[1].close
    /\ portfolio.hedge_position[1].current_price
         # portfolio.hedge_position[1].avg_entry_price

====
